---- MODULE Spec2Model ----
(***************************************************************************)
(* A model of nanoflann::MemoryMonitor and TreeBuildScope                  *)
(* (include/memory/nanoflann_memory_monitor.hpp and                        *)
(* include/memory/nanoflann_memory_monitor_impl.hpp): one monitor, the     *)
(* client thread that calls its public methods, and the background thread  *)
(* that start() spawns.                                                    *)
(***************************************************************************)
EXTENDS Integers, Sequences, FiniteSets, TLC

\* ---------------------------------------------------------------- constants
\* 1024 * 1024: bytes per MB in process_memory_check
MB == 1048576
\* 20 * 1024 * 1024: the threshold of the Debug containers before any is set
DEFAULT_MEMORY_THRESHOLD == 20971520
\* the event history keeps the last 1000 events (trigger_event)
MaxHistory == 1000
\* a spike is an increase of more than 50 MB (process_memory_check)
SpikeThresholdMB == 50

\* ------------------------------------------------------------------- bounds
\* events emitted since construction, in the specification Spec
MaxEmit == 2
\* callbacks registered at a time
MaxCallbacks == 1
\* events emitted since construction, in the specification SpecScope
MaxScopeEmit == 3
\* events emitted beyond the history cap, in the specification SpecHistory
HistoryExtra == 3
\* callbacks registered at a time, in the specification SpecObserver
MaxObservers == 2
\* events emitted since construction, in the specification SpecObserver
MaxObserverEmit == 2
\* events emitted since construction, in the specification SpecThread
MaxThreadEmit == 2
\* events emitted since construction, in the specification SpecInstances
MaxInstanceEmit == 2
\* TreeBuildScopes constructed since construction, in the specification SpecPaired
MaxScopes == 2
\* events emitted since construction, in the specification SpecPaired
MaxPairedEmit == 4
\* events emitted since construction, in the specification SpecSteady
MaxSteadyEmit == 2
\* bits of a size_t in the model of estimate_tree_memory_usage
WordBits == 24
\* events emitted since construction, in the specification SpecReporter
MaxReporterEmit == 2
\* events emitted since construction, in the specification SpecOrder
MaxOrderEmit == 4
\* calls of MemoryTracker::track_allocation that are counted
MaxAllocations == 3
\* calls of MonitoredKDTreeIndex::buildIndex
MaxBuilds == 2
\* events emitted since construction, in the specification SpecWake
MaxWakeEmit == 2
\* The sizes of the allocations that threads make at the same time
TrackingSizes == {8, 16}

\* The threads that call track_allocation at the same time
TrackerThreads == {1, 2}

\* The callbacks registered with a monitor whose callbacks call it
MaxReentrantCallbacks == 2

\* The events emitted by a monitor whose callbacks call it
MaxReentrantEmit == 3

\* The NanoFlannMemory::MemoryMonitor objects of the process
MonitorIds == {1, 2, 3}

\* params.leaf_max_size of the trees built
LeafMaxSize == 1
\* points of a dataset that a MemoryMonitoredKDTree is built over
MaxPoints == 3
\* events emitted since construction, in the specification SpecStop
MaxStopEmit == 3

\* What the memory reporter can return, in bytes: 0 (unknown) and 60.5 MB.
Readings == {0, 60 * MB + (MB \div 2)}
\* What a custom memory reporter returns, in bytes.
CustomReadings == {MB - 1, 50 * MB, 51 * MB - 1}
\* Configured thresholds, in MB.
Thresholds == {0, 60}
\* User-supplied context strings, numbered; 0 is the empty string, the default
\* argument of TreeBuildScope::end.
Contexts == {1}
EndContexts == {0} \cup Contexts

VARIABLES
    monitoring_active,  \* std::atomic<bool> monitoring_active_
    threshold,          \* config_.memory_threshold_mb
    enable_background,  \* config_.enable_background_monitoring
    platform_supported, \* FALSE: the memory reporter returns 0 on every call
    stats,              \* stats_: [current_memory_mb, peak_memory_mb]
    event_history,      \* event_history_
    callbacks,          \* callbacks_: the number of registered callbacks
    client_pc,          \* the accesses to shared state that the client's call has still to make
    loop_pc,            \* the accesses that the loop's iteration has still to make
    threads,            \* background threads that have been spawned and have not ended
    throwing,           \* the registered callbacks (by position) that throw when invoked
    monitor_thread,     \* the thread behind monitor_thread_: none, running (at the
                        \* while test), waiting (in wait_for), done, joined
    last_memory_mb,     \* static last_memory_mb of process_memory_check
    spike_clock_set,    \* static last_spike_check has been initialised
    client,             \* where the client thread is: ready, start_check, stop_join,
                        \* destroy_join (in the destructor's stop()), destroyed
    scope,              \* the live TreeBuildScope: [alive, context_, ended_]
    emitted,            \* history: every event passed to trigger_event since the last reset()
    n_emitted,          \* history: events passed to trigger_event since construction
    scope_ends,         \* history: TREE_BUILD_END events emitted through the live scope
    last_start_stop,    \* history: the most recent of start()/stop() called: none, start, stop
    last_op,            \* history: the client's most recent call
    last_reads,         \* history: memory reporter calls made by that call
    last_callbacks,     \* history: callback invocations made by that call
    last_dispatch,      \* history: the callbacks that call invoked, in order of invocation
    escaped,            \* history: an exception has left trigger_event
    memory_reporter,    \* memory_reporter_: "custom" (the constructor's argument) or
                        \* "get_process_memory_usage"
    platform_reader_called, \* history: get_process_memory_usage has been called
    estimate_call,      \* the most recent call of estimate_tree_memory_usage: its
                        \* arguments and the value it returned
    estimate_prev,      \* the call of estimate_tree_memory_usage before that one
    threshold_,         \* PeakMemoryWatcher::threshold_, in bytes
    baseline_rss_,      \* PeakMemoryWatcher::baseline_rss_
    peak_rss_,          \* PeakMemoryWatcher::peak_rss_
    running_,           \* PeakMemoryWatcher::running_
    watcher_thread_,    \* the thread behind watcher_thread_: none, test (at the while
                        \* test of watchLoop), sample, done, joined
    watcher,            \* where the watcher's owner is: none, alive, join (in the
                        \* destructor's join), final, destroyed
    rss_seen,           \* history: the readings of currentRSS() that the watcher took
    callback_log,       \* history: the calls of callback_, each with its argument and
                        \* the state it was made in
    kdtree,             \* where the MemoryMonitoredKDTree is: none, failed (init threw),
                        \* idle (constructed, not built), build, divide,
                        \* divide_concurrent, built, thrown (buildIndex threw)
    dataset_,           \* dataset_.kdtree_get_point_count() at construction
    dim_,               \* Base::dim_
    size_,              \* Base::size_
    n_thread_build_,    \* Base::n_thread_build_
    memory_threshold_,  \* nanoflann::MemoryMonitor::memory_threshold_ of the tree, in bytes
    root_node_,         \* Base::root_node_ is not null
    pool_nodes,         \* nodes allocated from monitored_pool_ since the last freeIndex
    pending,            \* the divideTree calls still to make, first first: the
                        \* number of points of each
    kdtree_error,       \* the exception that left the constructor or buildIndex
    limit_readings,     \* history: the readings of checkMemoryLimit in this build,
                        \* each with pool_nodes at the reading
    client_event,       \* the event that the client's trigger_event has stored and
                        \* not yet passed to the callbacks, in <<>> or <<event>>
    loop_event,         \* the same of the background thread's trigger_event
    delivered,          \* history: the events that the callbacks were invoked with,
                        \* in the order of the invocations
    monitoring_enabled_,\* MemoryTracker::monitoring_enabled_
    config_,            \* MemoryTracker::config_: [enable_detailed_tracking, enable_threshold_alerts,
                        \* threshold_bytes]
    stats_,             \* MemoryTracker::stats_: [current_usage, peak_usage, total_allocations,
                        \* allocation_count, threshold_exceeded]
    allocations_,       \* MemoryTracker::allocations_: a function from the addresses in the
                        \* table to the sizes
    heap,               \* the addresses that the allocator has handed out and not taken back
    alerted,            \* whether the last call of the tracker ran trigger_threshold_alert
    index_pc,           \* MonitoredKDTreeIndex: "none" before construction, "idle" between the
                        \* calls, else the position inside buildIndex
    enable_auto_monitoring,\* monitor_config_.enable_auto_monitoring
    monitoring_active_, \* MonitoredKDTreeIndex::monitoring_active_
    memory_monitor_,    \* whether MonitoredKDTreeIndex::memory_monitor_ holds a monitor
    builds,             \* calls of buildIndex so far
    build_enabled,      \* history: is_monitoring_enabled() at the last call of buildIndex
    build_log,          \* history: the types of the events emitted during the last buildIndex,
                        \* and "base" where Base::buildIndex ran
    base_error,         \* what Base::buildIndex threw in the last buildIndex, or "none"
    build_result,       \* how the last buildIndex ended: "returned" or the exception thrown
    limited,            \* KDTreeSingleIndexAdaptorLimited: "none" before construction, "idle",
                        \* "divide" inside buildIndex, "built" or "thrown" after it
    rss_limit_,         \* KDTreeSingleIndexAdaptorLimited::rss_limit_, in bytes
    pool_limit_,        \* KDTreeSingleIndexAdaptorLimited::pool_limit_, in bytes
    build_baseline_rss_,\* KDTreeSingleIndexAdaptorLimited::baseline_rss_
    limited_size_,      \* its size_
    limited_root_node_, \* whether its root_node_ points to a node
    limited_pool_nodes, \* the nodes held by its pool_
    limited_pending,    \* the sizes of the ranges whose divideTreeLimited call is still to be
                        \* made, the next one first
    limited_error,      \* what the last buildIndex threw, or "none"
    divide_calls,       \* history: the calls of divideTreeLimited in the last buildIndex
    exceeded_log,       \* history: the calls of exceeded() in the last buildIndex, each
                        \* [rss_now, pool_bytes]
    memory_threshold,   \* Debug::memory_threshold, in bytes
    output_stream,      \* Debug::output_stream: 0 for the default function, which writes to
                        \* std::cout, else the function installed
    vec,                \* a Debug::vector<int>: [size, capacity]
    container_call,     \* the last operation on a Debug container: [op, count, storage,
                        \* threshold, installed, thrown, outputs], storage being the
                        \* elements asked of the allocator and outputs being the invocations of the output
                        \* functions, each [stream, bytes]
    threshold_passed,   \* history: the last value passed to set_memory_threshold, in <<>> or <<t>>
    stream_passed,      \* history: the last function passed to set_output_stream, in <<>> or <<f>>
    cv,                 \* monitor_cv_ and the loop's wait_for on it: [loop, woken], loop being
                        \* "idle" outside wait_for, "tested" after the predicate was found
                        \* false and before the thread blocks, "blocked", or "notified";
                        \* woken being how the last wait_for after stop() ended
    tracking,           \* the calls of MemoryTracker in flight, thread by thread: [pc, ptr, size,
                        \* new_current, current_peak], the deallocating thread's [free_pc,
                        \* below], and the histories alerts (calls of trigger_threshold_alert
                        \* since threshold_exceeded was last cleared), max_current (the largest
                        \* current_usage after an addition since the last reset) and retried
                        \* (a compare-exchange on peak_usage failed since the last reset)
    dispatching,        \* one thread inside the monitor's calls: [pc, call, callbacks_ (what each
                        \* callback calls when it is invoked), index (the callback the loop of
                        \* trigger_event is at), nested (the call made by that callback),
                        \* callbacks_mutex_, stored (events put into the history), completed
                        \* (dispatching calls that returned), abandoned (nested calls that did
                        \* not return normally)]
    monitors            \* the NanoFlannMemory::MemoryMonitor objects: [alive,
                        \* was_monitoring_enabled_, periodic (periodic_monitor_ is running)],
                        \* each by object, and before, the history of what the switch was when
                        \* no object was alive

\* the monitor, its client and its background thread
monitor_vars == <<monitoring_active, threshold, enable_background, platform_supported, stats,
          event_history, callbacks, monitor_thread, last_memory_mb, spike_clock_set,
          client, scope, emitted, n_emitted, scope_ends, last_start_stop, last_op, last_reads, last_callbacks,
          throwing, last_dispatch, escaped, threads, client_pc, loop_pc,
          memory_reporter, platform_reader_called>>

\* the calls of memory_utils::estimate_tree_memory_usage
estimates == <<estimate_call, estimate_prev>>

\* PeakMemoryWatcher, its owner and its thread
watchers == <<threshold_, baseline_rss_, peak_rss_, running_, watcher_thread_, watcher,
              rss_seen, callback_log>>

\* MemoryMonitoredKDTree and its client
kdtrees == <<kdtree, dataset_, dim_, size_, n_thread_build_, memory_threshold_,
             root_node_, pool_nodes, pending, kdtree_error, limit_readings>>

\* trigger_event in its two critical sections, on the two threads
deliveries == <<client_event, loop_event, delivered>>

\* MemoryTracker and the allocator that reports to it
trackers == <<monitoring_enabled_, config_, stats_, allocations_, heap, alerted>>

\* MonitoredKDTreeIndex, around the monitor it owns
indexes == <<index_pc, enable_auto_monitoring, monitoring_active_, memory_monitor_, builds, build_enabled, build_log, base_error, build_result>>

\* KDTreeSingleIndexAdaptorLimited
limiteds == <<limited, rss_limit_, pool_limit_, build_baseline_rss_, limited_size_, limited_root_node_, limited_pool_nodes, limited_pending, limited_error, divide_calls, exceeded_log>>

\* the Debug containers and their configuration
containers == <<memory_threshold, output_stream, vec, container_call, threshold_passed, stream_passed>>

\* monitoring_loop's wait_for, step by step
waits == <<cv>>

\* MemoryTracker's calls taken apart into their atomic operations
trackings == <<tracking>>

\* callbacks that call the monitor that invokes them
dispatchings == <<dispatching>>

\* NanoFlannMemory::MemoryMonitor objects and the switch of MemoryTracker
lifetimes == <<monitors>>

\* the free functions and the classes beside MemoryMonitor, and the finer
\* steps of trigger_event
utilities == <<estimates, watchers, kdtrees, deliveries, trackers, indexes, limiteds, containers, waits, trackings, dispatchings, lifetimes>>

\* the utilities beside each one of them
beside_estimates == <<watchers, kdtrees, deliveries, trackers, indexes, limiteds, containers, waits, trackings, dispatchings, lifetimes>>
beside_watchers == <<estimates, kdtrees, deliveries, trackers, indexes, limiteds, containers, waits, trackings, dispatchings, lifetimes>>
beside_kdtrees == <<estimates, watchers, deliveries, trackers, indexes, limiteds, containers, waits, trackings, dispatchings, lifetimes>>
beside_deliveries == <<estimates, watchers, kdtrees, trackers, indexes, limiteds, containers, waits, trackings, dispatchings, lifetimes>>
beside_trackers == <<estimates, watchers, kdtrees, deliveries, indexes, limiteds, containers, waits, trackings, dispatchings, lifetimes>>
beside_indexes == <<estimates, watchers, kdtrees, deliveries, trackers, limiteds, containers, waits, trackings, dispatchings, lifetimes>>
beside_limiteds == <<estimates, watchers, kdtrees, deliveries, trackers, indexes, containers, waits, trackings, dispatchings, lifetimes>>
beside_containers == <<estimates, watchers, kdtrees, deliveries, trackers, indexes, limiteds, waits, trackings, dispatchings, lifetimes>>
beside_waits == <<estimates, watchers, kdtrees, deliveries, trackers, indexes, limiteds, containers, trackings, dispatchings, lifetimes>>
beside_trackings == <<estimates, watchers, kdtrees, deliveries, trackers, indexes, limiteds, containers, waits, dispatchings, lifetimes>>
beside_dispatchings == <<estimates, watchers, kdtrees, deliveries, trackers, indexes, limiteds, containers, waits, trackings, lifetimes>>
beside_lifetimes == <<estimates, watchers, kdtrees, deliveries, trackers, indexes, limiteds, containers, waits, trackings, dispatchings>>
beside_lived == <<estimates, watchers, kdtrees, deliveries, indexes, limiteds, containers, waits, trackings, dispatchings>>
beside_tracked == <<estimates, watchers, kdtrees, deliveries, indexes, limiteds, containers, waits,
                    dispatchings, lifetimes>>

vars == <<monitor_vars, utilities>>

config == <<threshold, enable_background, platform_supported, memory_reporter>>

\* where the two threads are in their accesses to shared state
accesses == <<client_pc, loop_pc>>

\* monitor_thread_ and the threads it has pointed to
thread == <<monitor_thread, threads>>

\* callbacks_
observers == <<callbacks, throwing>>

\* ------------------------------------------- estimate_tree_memory_usage
\* size_t: the machine word, WordBits bits wide in the model
Word == 2 ^ WordBits

plus(a, b) == (a + b) % Word

\* a * b in size_t, by doubling so that no intermediate value leaves the
\* integers of the model checker
RECURSIVE times(_, _)
times(a, b) ==
    IF b = 0 THEN 0
    ELSE plus(IF b % 2 = 1 THEN a ELSE 0, (2 * times(a, b \div 2)) % Word)

\* What static_cast<size_t> of a double outside the range of size_t can give:
\* the conversion is undefined.
UndefinedCast == {0, Word \div 2, Word - 1}

\* static_cast<size_t>(total_bytes * 1.2): the values it can give
with_overhead(total_bytes) ==
    LET scaled == (total_bytes * 6) \div 5
    IN  IF scaled < Word THEN {scaled} ELSE UndefinedCast

\* total_bytes before the overhead, in size_t
tree_bytes(num_points, dimension, point_type_size) ==
    LET point_data_size == times(times(num_points, dimension), point_type_size)
        tree_nodes_size == times(times(num_points, 8), 2)
        index_arrays_size == times(times(num_points, 8), 2)
        construction_buffer_size == times(num_points, 8)
    IN  plus(plus(plus(point_data_size, tree_nodes_size), index_arrays_size),
             construction_buffer_size)

\* estimate_tree_memory_usage(num_points, dimension, point_type_size): the
\* values it can return, in MB
estimate_tree_memory_usage(num_points, dimension, point_type_size) ==
    {total_bytes \div MB :
        total_bytes \in with_overhead(tree_bytes(num_points, dimension, point_type_size))}

\* The arguments that the calls are made with.
NumPoints == {0, 1000, 100000, Word \div 48, Word \div 8}
Dimensions == {1, 3}
PointTypeSizes == {4, 8}

NoEstimate == [called |-> FALSE, num_points |-> 0, dimension |-> 0,
               point_type_size |-> 0, result |-> 0]

EstimatesUnused ==
    /\ estimate_call = NoEstimate
    /\ estimate_prev = NoEstimate

\* ------------------------------------------------------- PeakMemoryWatcher
WatchersUnused ==
    /\ threshold_ = 0
    /\ baseline_rss_ = 0
    /\ peak_rss_ = 0
    /\ running_ = FALSE
    /\ watcher_thread_ = "none"
    /\ watcher = "none"
    /\ rss_seen = {}
    /\ callback_log = <<>>

\* --------------------------------------------------- MemoryMonitoredKDTree
KDTreesUnused ==
    /\ kdtree = "none"
    /\ dataset_ = 0
    /\ dim_ = 0
    /\ size_ = 0
    /\ n_thread_build_ = 1
    /\ memory_threshold_ = 0
    /\ root_node_ = FALSE
    /\ pool_nodes = 0
    /\ pending = <<>>
    /\ kdtree_error = "none"
    /\ limit_readings = <<>>

DeliveriesUnused ==
    /\ client_event = <<>>
    /\ loop_event = <<>>
    /\ delivered = <<>>

TrackersUnused ==
    /\ monitoring_enabled_ = FALSE
    /\ config_ = [enable_detailed_tracking |-> FALSE,
                  enable_threshold_alerts |-> TRUE,
                  threshold_bytes |-> 50 * MB]
    /\ stats_ = [current_usage |-> 0, peak_usage |-> 0, total_allocations |-> 0,
                 allocation_count |-> 0, threshold_exceeded |-> FALSE]
    /\ allocations_ = <<>>
    /\ heap = {}
    /\ alerted = FALSE

IndexesUnused ==
    /\ index_pc = "none"
    /\ enable_auto_monitoring = FALSE
    /\ monitoring_active_ = FALSE
    /\ memory_monitor_ = FALSE
    /\ builds = 0
    /\ build_enabled = FALSE
    /\ build_log = <<>>
    /\ base_error = "none"
    /\ build_result = "none"

LimitedsUnused ==
    /\ limited = "none"
    /\ rss_limit_ = 0
    /\ pool_limit_ = 0
    /\ build_baseline_rss_ = 0
    /\ limited_size_ = 0
    /\ limited_root_node_ = FALSE
    /\ limited_pool_nodes = 0
    /\ limited_pending = <<>>
    /\ limited_error = "none"
    /\ divide_calls = 0
    /\ exceeded_log = <<>>

ContainersUnused ==
    /\ memory_threshold = DEFAULT_MEMORY_THRESHOLD
    /\ output_stream = 0
    /\ vec = [size |-> 0, capacity |-> 0]
    /\ container_call = [op |-> "none", count |-> 0, storage |-> 0,
                         threshold |-> 0, installed |-> <<>>,
                         thrown |-> FALSE, outputs |-> <<>>]
    /\ threshold_passed = <<>>
    /\ stream_passed = <<>>

WaitsUnused ==
    /\ cv = [loop |-> "idle", woken |-> "none"]

TrackingsUnused ==
    /\ tracking = [pc |-> [t \in TrackerThreads |-> "idle"],
                   ptr |-> [t \in TrackerThreads |-> 0],
                   size |-> [t \in TrackerThreads |-> 0],
                   new_current |-> [t \in TrackerThreads |-> 0],
                   current_peak |-> [t \in TrackerThreads |-> 0],
                   free_pc |-> "idle", below |-> FALSE,
                   alerts |-> 0, max_current |-> 0, retried |-> FALSE]

DispatchingsUnused ==
    /\ dispatching = [pc |-> "idle", call |-> "none", callbacks_ |-> <<>>, index |-> 0, nested |-> "none",
                      callbacks_mutex_ |-> "free", stored |-> 0, completed |-> 0,
                      abandoned |-> 0]

LifetimesUnused ==
    /\ monitors = [alive |-> [i \in MonitorIds |-> FALSE],
                   was_monitoring_enabled_ |-> [i \in MonitorIds |-> FALSE],
                   periodic |-> [i \in MonitorIds |-> FALSE],
                   before |-> FALSE]

UtilitiesUnused ==
    EstimatesUnused /\ WatchersUnused /\ KDTreesUnused /\ DeliveriesUnused /\
    TrackersUnused /\ IndexesUnused /\ LimitedsUnused /\ ContainersUnused /\
    WaitsUnused /\ TrackingsUnused /\ DispatchingsUnused /\ LifetimesUnused

\* ------------------------------------------------------------------- events
Context(prefix, text) == [prefix |-> prefix, text |-> text, spike |-> 0]

MemoryEvent(type, memory_mb, context) ==
    [type |-> type, memory_mb |-> memory_mb, context |-> context]

\* The bytes the reporter may return.
ReporterValues ==
    IF memory_reporter = "custom" THEN CustomReadings
    ELSE IF platform_supported THEN Readings ELSE {0}

\* The inputs of a call: the bytes the reporter returns to it, and whether more
\* than 1000 ms have passed since last_spike_check. Only an active monitor calls
\* the reporter and reads the clock, and the clock's first reading sets
\* last_spike_check.
BytesRead == IF monitoring_active THEN ReporterValues ELSE {0}
Elapsed == IF monitoring_active /\ spike_clock_set THEN BOOLEAN ELSE {FALSE}

\* The monitor's data that a memory check works on, with the step's tallies.
Snapshot ==
    [current_memory_mb |-> stats.current_memory_mb,
     peak_memory_mb    |-> stats.peak_memory_mb,
     event_history     |-> event_history,
     last_memory_mb    |-> last_memory_mb,
     spike_clock_set   |-> spike_clock_set,
     emitted           |-> emitted,
     n_emitted         |-> n_emitted,
     reads             |-> 0,
     callbacks_called  |-> 0,
     dispatch          |-> <<>>,
     escaped           |-> escaped,
     platform_reader_called |-> platform_reader_called]

\* Mutant of TruncateHistory: erases the newest events, not the oldest.
TruncateHistoryNewest(h) ==
    IF Len(h) > MaxHistory THEN SubSeq(h, 1, MaxHistory) ELSE h

\* event_history_.erase(begin, begin + (size - 1000)) when size > 1000
TruncateHistory(h) ==
    IF Len(h) > MaxHistory THEN SubSeq(h, Len(h) - MaxHistory + 1, Len(h)) ELSE h

\* event_history_.push_back(event) and the cap
store_event(S, event) ==
    [S EXCEPT !.event_history = TruncateHistory(Append(S.event_history, event)),
              !.emitted = Append(S.emitted, event),
              !.n_emitted = S.n_emitted + 1]

\* callback(event) for the callback at position i
invoke(S, i) ==
    [S EXCEPT !.callbacks_called = S.callbacks_called + 1,
              !.dispatch = Append(S.dispatch, i)]

\* Without the try/catch: the loop over callbacks_ from position i on, left by
\* the first exception.
RECURSIVE dispatch_uncaught(_, _)
dispatch_uncaught(S, i) ==
    IF i > callbacks THEN S
    ELSE IF i \in throwing THEN [invoke(S, i) EXCEPT !.escaped = TRUE]
    ELSE dispatch_uncaught(invoke(S, i), i + 1)

\* Mutant of trigger_event: no try/catch around callback(event).
trigger_event_uncaught(S, event) == dispatch_uncaught(store_event(S, event), 1)

\* for (callback : callbacks_) try { callback(event); } catch (...) {}, from
\* position i on: what a callback throws is caught and dropped, and the loop
\* goes on
RECURSIVE dispatch(_, _)
dispatch(S, i) ==
    IF i > callbacks THEN S ELSE dispatch(invoke(S, i), i + 1)

trigger_event(S, event) == dispatch(store_event(S, event), 1)

\* Mutant of update_stats: the peak follows the current value down.
update_stats_overwrite(S, current_mb) ==
    [S EXCEPT !.current_memory_mb = current_mb, !.peak_memory_mb = current_mb]

update_stats(S, current_mb) ==
    [S EXCEPT !.current_memory_mb = current_mb,
              !.peak_memory_mb = IF current_mb > S.peak_memory_mb
                                 THEN current_mb ELSE S.peak_memory_mb]

\* Mutant of ThresholdCheck: at the threshold counts as exceeded.
ThresholdCheckInclusive(S, context, current_mb) ==
    IF current_mb >= threshold
    THEN trigger_event(S, MemoryEvent("THRESHOLD_EXCEEDED", current_mb, context))
    ELSE S

\* The threshold branch of process_memory_check.
ThresholdCheck(S, context, current_mb) ==
    IF current_mb > threshold
    THEN trigger_event(S, MemoryEvent("THRESHOLD_EXCEEDED", current_mb, context))
    ELSE S

\* The spike branch of process_memory_check; elapsed: more than 1000 ms have
\* passed since last_spike_check (never at the call that initialises it).
SpikeCheck(S, context, current_mb, elapsed) ==
    IF elapsed /\ S.spike_clock_set
    THEN LET increase == IF current_mb > S.last_memory_mb
                         THEN current_mb - S.last_memory_mb ELSE 0
             S1 == IF increase > SpikeThresholdMB
                   THEN trigger_event(S, MemoryEvent("MEMORY_SPIKE_DETECTED", current_mb,
                                         [context EXCEPT !.spike = increase]))
                   ELSE S
         IN  [S1 EXCEPT !.last_memory_mb = current_mb, !.spike_clock_set = TRUE]
    ELSE [S EXCEPT !.spike_clock_set = TRUE]

\* Mutant of memory_reporter_: the platform reader is called whatever the
\* reporter.
memory_reporter_platform(S) ==
    [S EXCEPT !.reads = S.reads + 1, !.platform_reader_called = TRUE]

\* memory_reporter_(): one call of the reporter that the constructor stored
memory_reporter_(S) ==
    [S EXCEPT !.reads = S.reads + 1,
              !.platform_reader_called =
                  @ \/ memory_reporter = "get_process_memory_usage"]

process_memory_check(S, context, bytes, elapsed) ==
    LET current_mb == bytes \div MB
        S0 == memory_reporter_(S)
        S1 == update_stats(S0, current_mb)
        S2 == ThresholdCheck(S1, context, current_mb)
    IN  SpikeCheck(S2, context, current_mb, elapsed)

\* Mutant of check_memory: no test of monitoring_active_.
check_memory_unguarded(S, active, context, bytes, elapsed) ==
    process_memory_check(S, context, bytes, elapsed)

\* check_memory as called with monitoring_active_ = active
check_memory(S, active, context, bytes, elapsed) ==
    IF ~active THEN S ELSE process_memory_check(S, context, bytes, elapsed)

\* Writes a snapshot back.
Install(S) ==
    /\ stats' = [current_memory_mb |-> S.current_memory_mb,
                 peak_memory_mb |-> S.peak_memory_mb]
    /\ event_history' = S.event_history
    /\ last_memory_mb' = S.last_memory_mb
    /\ spike_clock_set' = S.spike_clock_set
    /\ emitted' = S.emitted
    /\ n_emitted' = S.n_emitted
    /\ escaped' = S.escaped
    /\ platform_reader_called' = S.platform_reader_called

\* Records a client call that leaves snapshot S.
Call(op, S) ==
    /\ last_op' = op
    /\ last_reads' = S.reads
    /\ last_callbacks' = S.callbacks_called
    /\ last_dispatch' = S.dispatch

last_call == <<last_op, last_reads, last_callbacks, last_dispatch>>

\* What a step that runs no memory check and emits nothing leaves alone.
data == <<stats, event_history, last_memory_mb, spike_clock_set, emitted, n_emitted,
          escaped, platform_reader_called>>

\* A client call that leaves snapshot S.
ClientCall(op, S) == Install(S) /\ Call(op, S)

\* A client call that runs no memory check and emits nothing.
ClientQuiet(op) ==
    /\ UNCHANGED data
    /\ last_op' = op
    /\ last_reads' = 0
    /\ last_callbacks' = 0
    /\ last_dispatch' = <<>>

NoScope == [alive |-> FALSE, context |-> 0, ended |-> FALSE]

\* MemoryMonitor(config, reporter); reporter: "none" (the default argument, an
\* empty std::function) or "custom"
MemoryMonitor(reporter) ==
    /\ memory_reporter = (IF reporter # "none" THEN reporter
                          ELSE "get_process_memory_usage")
    /\ platform_reader_called = FALSE
    /\ monitoring_active = FALSE
    /\ threshold \in Thresholds
    /\ enable_background \in BOOLEAN
    /\ platform_supported \in BOOLEAN
    /\ stats = [current_memory_mb |-> 0, peak_memory_mb |-> 0]
    /\ event_history = <<>>
    /\ callbacks = 0
    /\ throwing = {}
    /\ monitor_thread = "none"
    /\ threads = 0
    /\ client_pc = <<>>
    /\ loop_pc = <<>>
    /\ last_memory_mb = 0
    /\ spike_clock_set = FALSE
    /\ client = "ready"
    /\ scope = NoScope
    /\ emitted = <<>>
    /\ n_emitted = 0
    /\ scope_ends = 0
    /\ last_start_stop = "none"
    /\ last_op = "construct"
    /\ last_reads = 0
    /\ last_callbacks = 0
    /\ last_dispatch = <<>>
    /\ escaped = FALSE
    /\ UtilitiesUnused

Init == MemoryMonitor("none")

\* ------------------------------------------------------------ client thread
\* Mutant of Stop: monitoring_active_ is not cleared.
StopNoStore ==
    /\ client = "ready"
    /\ last_start_stop' = "stop"
    /\ IF ~monitoring_active
       THEN /\ ClientQuiet("stop_noop")
            /\ UNCHANGED <<monitoring_active, client>>
       ELSE /\ ClientQuiet("stop")
            /\ UNCHANGED monitoring_active
            /\ client' = "stop_join"
    /\ UNCHANGED <<config, observers, thread, scope, scope_ends, accesses, utilities>>

\* Mutant of Start: no early return when already active.
StartAgain ==
    /\ client = "ready"
    /\ last_start_stop' = "start"
    /\ ClientQuiet(IF monitoring_active THEN "start_noop" ELSE "start")
    /\ monitoring_active' = TRUE
    /\ monitor_thread' = IF enable_background THEN "running" ELSE monitor_thread
    /\ threads' = IF enable_background THEN threads + 1 ELSE threads
    /\ client' = "start_check"
    /\ UNCHANGED <<config, observers, scope, scope_ends, accesses, utilities>>

\* start(), up to the initial memory check
StartCall ==
    /\ client = "ready"
    /\ last_start_stop' = "start"
    /\ IF monitoring_active
       THEN /\ ClientQuiet("start_noop")
            /\ UNCHANGED <<monitoring_active, thread, client>>
       ELSE /\ ClientQuiet("start")
            /\ monitoring_active' = TRUE
            /\ monitor_thread' = IF enable_background THEN "running" ELSE monitor_thread
            /\ threads' = IF enable_background THEN threads + 1 ELSE threads
            /\ client' = "start_check"
    /\ UNCHANGED <<config, observers, scope, scope_ends, accesses>>

\* the call, and nothing beside the monitor changes
Start == StartCall /\ UNCHANGED utilities

\* start(): check_memory("Monitor started")
StartInitialCheckCall(bytes, elapsed) ==
    /\ client = "start_check"
    /\ ClientCall("start_return",
                  check_memory(Snapshot, monitoring_active,
                               Context("Monitor started", 0), bytes, elapsed))
    /\ client' = "ready"
    /\ UNCHANGED <<monitoring_active, config, observers, thread, scope,
                   scope_ends, last_start_stop,
                   accesses>>

\* the call, and nothing beside the monitor changes
StartInitialCheckWith(bytes, elapsed) == StartInitialCheckCall(bytes, elapsed) /\ UNCHANGED utilities

StartInitialCheck ==
    \E bytes \in BytesRead, elapsed \in Elapsed : StartInitialCheckWith(bytes, elapsed)

\* stop(), up to the join
StopCall ==
    /\ client = "ready"
    /\ last_start_stop' = "stop"
    /\ IF ~monitoring_active
       THEN /\ ClientQuiet("stop_noop")
            /\ UNCHANGED <<monitoring_active, client>>
       ELSE /\ ClientQuiet("stop")
            /\ monitoring_active' = FALSE
            /\ client' = "stop_join"
    /\ UNCHANGED <<config, observers, thread, scope, scope_ends, accesses>>

\* the call, and nothing beside the monitor changes
Stop == StopCall /\ UNCHANGED utilities

\* Mutant of StopJoin: stop() does not wait for the thread.
StopNoJoin ==
    /\ client = "stop_join"
    /\ UNCHANGED thread
    /\ \E bytes \in BytesRead, elapsed \in Elapsed :
          ClientCall("stop_return",
                     check_memory(Snapshot, monitoring_active,
                                  Context("Monitor stopped", 0), bytes, elapsed))
    /\ client' = "ready"
    /\ UNCHANGED <<monitoring_active, config, observers, scope, scope_ends,
                   last_start_stop,
                   accesses, utilities>>

\* stop(): join() returns once the thread has ended, then check_memory("Monitor stopped")
StopJoinCall ==
    /\ client = "stop_join"
    /\ monitor_thread \in {"none", "done", "joined"}
    /\ monitor_thread' = IF monitor_thread = "done" THEN "joined" ELSE monitor_thread
    /\ UNCHANGED threads
    /\ \E bytes \in BytesRead, elapsed \in Elapsed :
          ClientCall("stop_return",
                     check_memory(Snapshot, monitoring_active,
                                  Context("Monitor stopped", 0), bytes, elapsed))
    /\ client' = "ready"
    /\ UNCHANGED <<monitoring_active, config, observers, scope, scope_ends,
                   last_start_stop,
                   accesses>>

\* the call, and nothing beside the monitor changes
StopJoin == StopJoinCall /\ UNCHANGED utilities

\* ~MemoryMonitor(): stop(), up to the join; on an idle monitor stop() returns
\* at once and the monitor is gone
Destroy ==
    /\ client = "ready"
    /\ ~scope.alive
    /\ last_start_stop' = "stop"
    /\ IF ~monitoring_active
       THEN /\ ClientQuiet("destroy_return")
            /\ UNCHANGED monitoring_active
            /\ client' = "destroyed"
       ELSE /\ ClientQuiet("destroy")
            /\ monitoring_active' = FALSE
            /\ client' = "destroy_join"
    /\ UNCHANGED <<config, observers, thread, scope, scope_ends, accesses, utilities>>

\* ~MemoryMonitor(): the rest of stop(), then the monitor is gone
DestroyJoin ==
    /\ client = "destroy_join"
    /\ monitor_thread \in {"none", "done", "joined"}
    /\ monitor_thread' = IF monitor_thread = "done" THEN "joined" ELSE monitor_thread
    /\ UNCHANGED threads
    /\ \E bytes \in BytesRead, elapsed \in Elapsed :
          ClientCall("destroy_return",
                     check_memory(Snapshot, monitoring_active,
                                  Context("Monitor stopped", 0), bytes, elapsed))
    /\ client' = "destroyed"
    /\ UNCHANGED <<monitoring_active, config, observers, scope, scope_ends,
                   last_start_stop,
                   accesses, utilities>>

\* Mutant of SetThresholdWith: reclassifies the past samples, dropping from the
\* history the THRESHOLD_EXCEEDED events that the new threshold does not justify.
SetThresholdReclassify(threshold_mb) ==
    /\ client = "ready"
    /\ threshold' = threshold_mb
    /\ LET justified(event) == \/ event.type # "THRESHOLD_EXCEEDED"
                               \/ event.memory_mb > threshold_mb
       IN  ClientCall("configure",
                      [Snapshot EXCEPT !.event_history = SelectSeq(@, justified)])
    /\ UNCHANGED <<monitoring_active, enable_background, platform_supported,
                   memory_reporter, observers,
                   thread, client, scope, scope_ends, last_start_stop,
                   accesses, utilities>>

SetThresholdWith(threshold_mb) ==
    /\ client = "ready"
    /\ threshold' = threshold_mb
    /\ ClientQuiet("configure")
    /\ UNCHANGED <<monitoring_active, enable_background, platform_supported,
                   memory_reporter, observers,
                   thread, client, scope, scope_ends, last_start_stop,
                   accesses, utilities>>

SetThreshold == \E threshold_mb \in Thresholds : SetThresholdWith(threshold_mb)

\* add_callback(callback); throws: the callback throws when it is invoked
AddCallbackCall(throws) ==
    /\ client = "ready"
    /\ callbacks' = callbacks + 1
    /\ throwing' = IF throws THEN throwing \cup {callbacks + 1} ELSE throwing
    /\ ClientQuiet("configure")
    /\ UNCHANGED <<monitoring_active, config, thread, client, scope, scope_ends,
                   last_start_stop,
                   accesses>>

\* the call, and nothing beside the monitor changes
AddCallbackWith(throws) == AddCallbackCall(throws) /\ UNCHANGED utilities

\* add_callback of a callback that returns
AddCallback ==
    /\ callbacks < MaxCallbacks
    /\ AddCallbackWith(FALSE)

ClearCallbacks ==
    /\ client = "ready"
    /\ callbacks' = 0
    /\ throwing' = {}
    /\ ClientQuiet("configure")
    /\ UNCHANGED <<monitoring_active, config, thread, client, scope, scope_ends,
                   last_start_stop,
                   accesses, utilities>>

\* check_memory(context) called by the client
CheckMemoryWith(context, bytes, elapsed) ==
    /\ client = "ready"
    /\ ClientCall("check_memory",
                  check_memory(Snapshot, monitoring_active, Context("", context),
                               bytes, elapsed))
    /\ UNCHANGED <<monitoring_active, config, observers, thread, client, scope,
                   scope_ends, last_start_stop,
                   accesses, utilities>>

CheckMemory ==
    \E context \in Contexts, bytes \in BytesRead, elapsed \in Elapsed :
        CheckMemoryWith(context, bytes, elapsed)

\* Mutant of mark_tree_build: the mark is emitted only above the threshold.
mark_tree_build_conditional(S, type, prefix, context, bytes, elapsed) ==
    LET event == MemoryEvent(type, S.current_memory_mb, Context("", context))
    IN  check_memory(IF S.current_memory_mb > threshold
                     THEN trigger_event(S, event) ELSE S,
                     monitoring_active, Context(prefix, context), bytes, elapsed)

\* mark_tree_build_start / mark_tree_build_end: the event carries
\* stats_.current_memory_mb as it is before the call's own memory check
mark_tree_build(S, type, prefix, context, bytes, elapsed) ==
    LET event == MemoryEvent(type, S.current_memory_mb, Context("", context))
    IN  check_memory(trigger_event(S, event), monitoring_active,
                     Context(prefix, context), bytes, elapsed)

mark_tree_build_start(S, context, bytes, elapsed) ==
    mark_tree_build(S, "TREE_BUILD_START", "Tree build start: ", context, bytes, elapsed)

mark_tree_build_end(S, context, bytes, elapsed) ==
    mark_tree_build(S, "TREE_BUILD_END", "Tree build end: ", context, bytes, elapsed)

MarkTreeBuildStartCall(context, bytes, elapsed) ==
    /\ client = "ready"
    /\ ClientCall("mark_tree_build_start",
                  mark_tree_build_start(Snapshot, context, bytes, elapsed))
    /\ UNCHANGED <<monitoring_active, config, observers, thread, client, scope,
                   scope_ends, last_start_stop,
                   accesses>>

\* the call, and nothing beside the monitor changes
MarkTreeBuildStartWith(context, bytes, elapsed) == MarkTreeBuildStartCall(context, bytes, elapsed) /\ UNCHANGED utilities

MarkTreeBuildStart ==
    \E context \in Contexts, bytes \in BytesRead, elapsed \in Elapsed :
        MarkTreeBuildStartWith(context, bytes, elapsed)

MarkTreeBuildEndCall(context, bytes, elapsed) ==
    /\ client = "ready"
    /\ ClientCall("mark_tree_build_end",
                  mark_tree_build_end(Snapshot, context, bytes, elapsed))
    /\ UNCHANGED <<monitoring_active, config, observers, thread, client, scope,
                   scope_ends, last_start_stop,
                   accesses>>

\* the call, and nothing beside the monitor changes
MarkTreeBuildEndWith(context, bytes, elapsed) == MarkTreeBuildEndCall(context, bytes, elapsed) /\ UNCHANGED utilities

MarkTreeBuildEnd ==
    \E context \in Contexts, bytes \in BytesRead, elapsed \in Elapsed :
        MarkTreeBuildEndWith(context, bytes, elapsed)

\* Mutant of Reset: the event history is not cleared.
ResetStatsOnly ==
    /\ client = "ready"
    /\ stats' = [current_memory_mb |-> 0, peak_memory_mb |-> 0]
    /\ last_op' = "reset"
    /\ last_reads' = 0
    /\ last_callbacks' = 0
    /\ last_dispatch' = <<>>
    /\ UNCHANGED <<monitoring_active, config, observers, thread, last_memory_mb,
                   spike_clock_set, client, scope, n_emitted, scope_ends,
                   last_start_stop, escaped, platform_reader_called,
                   event_history, emitted,
                   accesses, utilities>>

\* reset()
Reset ==
    /\ client = "ready"
    /\ stats' = [current_memory_mb |-> 0, peak_memory_mb |-> 0]
    /\ event_history' = <<>>
    /\ emitted' = <<>>
    /\ last_op' = "reset"
    /\ last_reads' = 0
    /\ last_callbacks' = 0
    /\ last_dispatch' = <<>>
    /\ UNCHANGED <<monitoring_active, config, observers, thread, last_memory_mb,
                   spike_clock_set, client, scope, n_emitted, scope_ends,
                   last_start_stop, escaped, platform_reader_called,
                   accesses, utilities>>

\* ----------------------------------------------------------- TreeBuildScope
\* TREE_BUILD_END events that a step leading to snapshot S emits
EndsEmitted(S) ==
    Cardinality({i \in (Len(emitted) + 1)..Len(S.emitted) :
                    S.emitted[i].type = "TREE_BUILD_END"})

\* Mutant of scope_end: no test of ended_.
scope_end_unguarded(S, context, bytes, elapsed) ==
    mark_tree_build_end(S, IF context = 0 THEN scope.context ELSE context, bytes, elapsed)

\* TreeBuildScope::end(context) on the live scope: the snapshot it leaves
scope_end(S, context, bytes, elapsed) ==
    IF ~scope.ended
    THEN mark_tree_build_end(S, IF context = 0 THEN scope.context ELSE context,
                             bytes, elapsed)
    ELSE S

\* TreeBuildScope::TreeBuildScope(monitor, context)
ScopeConstructWith(context, bytes, elapsed) ==
    /\ client = "ready"
    /\ ~scope.alive
    /\ ClientCall("scope_construct",
                  mark_tree_build_start(Snapshot, context, bytes, elapsed))
    /\ scope' = [alive |-> TRUE, context |-> context, ended |-> FALSE]
    /\ scope_ends' = 0
    /\ UNCHANGED <<monitoring_active, config, observers, thread, client,
                   last_start_stop,
                   accesses, utilities>>

ScopeConstruct ==
    \E context \in Contexts, bytes \in BytesRead, elapsed \in Elapsed :
        ScopeConstructWith(context, bytes, elapsed)

\* TreeBuildScope::end(context)
ScopeEnd ==
    /\ client = "ready"
    /\ scope.alive
    /\ \E context \in EndContexts, bytes \in BytesRead, elapsed \in Elapsed :
          LET S == scope_end(Snapshot, context, bytes, elapsed)
          IN  /\ ClientCall("scope_end", S)
              /\ scope_ends' = scope_ends + EndsEmitted(S)
    /\ scope' = [scope EXCEPT !.ended = TRUE]
    /\ UNCHANGED <<monitoring_active, config, observers, thread, client,
                   last_start_stop,
                   accesses, utilities>>

\* TreeBuildScope::~TreeBuildScope()
ScopeDestroy ==
    /\ client = "ready"
    /\ scope.alive
    /\ \E bytes \in BytesRead, elapsed \in Elapsed :
          LET S == scope_end(Snapshot, 0, bytes, elapsed)
          IN  /\ ClientCall("scope_destroy", S)
              /\ scope_ends' = scope_ends + EndsEmitted(S)
    /\ scope' = [scope EXCEPT !.alive = FALSE, !.ended = TRUE]
    /\ UNCHANGED <<monitoring_active, config, observers, thread, client,
                   last_start_stop,
                   accesses, utilities>>

\* -------------------------------------------------------- background thread
\* monitoring_loop, one turn: the thread, at the while test or in wait_for,
\* finds monitoring_active_ false and ends, or runs
\* check_memory("Background check") and waits again
MonitoringLoopWith(bytes, elapsed) ==
    /\ monitor_thread = "running"
    /\ IF ~monitoring_active
       THEN /\ monitor_thread' = "done"
            /\ threads' = threads - 1
            /\ UNCHANGED data
       ELSE /\ monitor_thread' = "running"
            /\ UNCHANGED threads
            /\ Install(check_memory(Snapshot, monitoring_active,
                                    Context("Background check", 0), bytes, elapsed))
    /\ UNCHANGED <<monitoring_active, config, observers, client, scope, scope_ends,
                   last_start_stop, last_call,
                   accesses, utilities>>

MonitoringLoop ==
    \E bytes \in BytesRead, elapsed \in Elapsed : MonitoringLoopWith(bytes, elapsed)

\* monitoring_loop in two steps. First the while test and the body up to
\* wait_for: the thread ends if monitoring_active_ is false, else it runs
\* check_memory("Background check") and starts to wait.
MonitoringLoopCheck ==
    /\ monitor_thread = "running"
    /\ IF ~monitoring_active
       THEN /\ monitor_thread' = "done"
            /\ threads' = threads - 1
            /\ UNCHANGED data
       ELSE /\ monitor_thread' = "waiting"
            /\ UNCHANGED threads
            /\ \E bytes \in BytesRead, elapsed \in Elapsed :
                  Install(check_memory(Snapshot, monitoring_active,
                                       Context("Background check", 0), bytes, elapsed))
    /\ UNCHANGED <<monitoring_active, config, observers, client, scope, scope_ends,
                   last_start_stop, last_call,
                   accesses, utilities>>

\* Then wait_for(lock, check_interval_ms, pred) returns, on notify_all or on the
\* timeout: with monitoring_active_ false the predicate holds and the loop
\* breaks, else the loop goes round.
MonitoringLoopWait ==
    /\ monitor_thread = "waiting"
    /\ monitor_thread' = IF ~monitoring_active THEN "done" ELSE "running"
    /\ threads' = IF ~monitoring_active THEN threads - 1 ELSE threads
    /\ UNCHANGED <<monitoring_active, config, observers, client, scope, scope_ends,
                   last_start_stop, last_call, data,
                   accesses, utilities>>

\* ----------------------------------------------------------- other instances
\* process_memory_check run by another MemoryMonitor instance of the process
\* (active, with a reporter of its own): of what this monitor can see it
\* touches the function-local statics last_memory_mb and last_spike_check,
\* which all instances share.
OtherInstanceCheck ==
    \E bytes \in Readings, elapsed \in (IF spike_clock_set THEN BOOLEAN ELSE {FALSE}) :
        LET S == SpikeCheck(Snapshot, Context("", 0), bytes \div MB, elapsed)
        IN  /\ last_memory_mb' = S.last_memory_mb
            /\ spike_clock_set' = S.spike_clock_set
            /\ UNCHANGED <<stats, event_history, emitted, n_emitted, escaped,
                           platform_reader_called,
                           monitoring_active, config, observers, thread, client,
                           scope, scope_ends, last_start_stop, last_call, accesses, utilities>>

\* -------------------------------------------------- accesses to shared state
\* One access of a method to state that both threads reach: the location, read
\* or write, and how the code guards it: "atomic" (std::atomic), the mutex it
\* holds ("stats_mutex_", "callbacks_mutex_"), or "none".
Access(loc, write, guard) == [loc |-> loc, write |-> write, guard |-> guard]

\* trigger_event: push_back under stats_mutex_, the loop over callbacks_ under
\* callbacks_mutex_
trigger_event_accesses ==
    <<Access("event_history_", TRUE, "stats_mutex_"),
      Access("callbacks_", FALSE, "callbacks_mutex_")>>

\* process_memory_check: update_stats under stats_mutex_, the bare read of
\* config_.memory_threshold_mb, trigger_event if exceeded, and the bare read
\* and write of the statics last_memory_mb / last_spike_check
process_memory_check_accesses(exceeded) ==
    <<Access("stats_", TRUE, "stats_mutex_"),
      Access("config_.memory_threshold_mb", FALSE, "none")>>
    \o (IF exceeded THEN trigger_event_accesses ELSE <<>>)
    \o <<Access("last_memory_mb", FALSE, "none"),
         Access("last_memory_mb", TRUE, "none")>>

\* check_memory on an active monitor: the atomic load, then process_memory_check
check_memory_accesses(exceeded) ==
    <<Access("monitoring_active_", FALSE, "atomic")>>
    \o process_memory_check_accesses(exceeded)

\* mark_tree_build_start / mark_tree_build_end: the bare read of
\* stats_.current_memory_mb for the event, trigger_event, check_memory
mark_tree_build_accesses(exceeded) ==
    <<Access("stats_", FALSE, "none")>>
    \o trigger_event_accesses
    \o check_memory_accesses(exceeded)

\* The accesses of the client's public methods, on an active monitor.
MethodAccesses(method, exceeded) ==
    CASE method = "set_threshold" ->
            <<Access("config_.memory_threshold_mb", TRUE, "none")>>
      [] method = "get_stats" -> <<Access("stats_", FALSE, "stats_mutex_")>>
      [] method = "get_event_history" ->
            <<Access("event_history_", FALSE, "stats_mutex_")>>
      [] method = "add_callback" -> <<Access("callbacks_", TRUE, "callbacks_mutex_")>>
      [] method = "reset" ->
            <<Access("stats_", TRUE, "stats_mutex_"),
              Access("event_history_", TRUE, "stats_mutex_")>>
      [] method = "check_memory" -> check_memory_accesses(exceeded)
      [] method = "mark_tree_build_start" -> mark_tree_build_accesses(exceeded)
      [] method = "mark_tree_build_end" -> mark_tree_build_accesses(exceeded)

Methods == {"set_threshold", "get_stats", "get_event_history", "add_callback", "reset",
            "check_memory", "mark_tree_build_start", "mark_tree_build_end"}

\* One turn of monitoring_loop: the while test, check_memory, and the
\* predicate of wait_for
monitoring_loop_accesses(exceeded) ==
    <<Access("monitoring_active_", FALSE, "atomic")>>
    \o check_memory_accesses(exceeded)
    \o <<Access("monitoring_active_", FALSE, "atomic")>>

\* What the access steps leave alone: the monitor's data.
monitor_data == <<monitoring_active, config, observers, thread, data, client, scope,
                  scope_ends, last_start_stop, last_call>>

\* The client calls a public method of the active monitor.
ClientEnters ==
    /\ client = "ready"
    /\ monitoring_active
    /\ client_pc = <<>>
    /\ \E method \in Methods, exceeded \in BOOLEAN :
          client_pc' = MethodAccesses(method, exceeded)
    /\ UNCHANGED <<loop_pc, monitor_data, utilities>>

\* The client makes the next access of its call.
ClientAccess ==
    /\ client_pc # <<>>
    /\ client_pc' = Tail(client_pc)
    /\ UNCHANGED <<loop_pc, monitor_data, utilities>>

\* The background thread starts a turn of its loop.
LoopEnters ==
    /\ monitor_thread = "running"
    /\ monitoring_active
    /\ loop_pc = <<>>
    /\ \E exceeded \in BOOLEAN : loop_pc' = monitoring_loop_accesses(exceeded)
    /\ UNCHANGED <<client_pc, monitor_data, utilities>>

\* The background thread makes the next access of its turn.
LoopAccess ==
    /\ loop_pc # <<>>
    /\ loop_pc' = Tail(loop_pc)
    /\ UNCHANGED <<client_pc, monitor_data, utilities>>

\* A monitor with background monitoring enabled.
InitAccess ==
    /\ Init
    /\ enable_background
    /\ platform_supported

\* The client starts the monitor, then its public calls interleave, access by
\* access, with the turns of the loop.
NextAccess ==
    \/ client_pc = <<>> /\ Start
    \/ StartInitialCheck
    \/ ClientEnters
    \/ ClientAccess
    \/ LoopEnters
    \/ LoopAccess

SpecAccess == InitAccess /\ [][NextAccess]_vars

\* ------------------------------------------------------------ specification
WithinEmit == n_emitted' <= MaxEmit

Next ==
    \/ Start
    \/ StartInitialCheck /\ WithinEmit
    \/ Stop
    \/ StopJoin /\ WithinEmit
    \/ SetThreshold
    \/ AddCallback
    \/ ClearCallbacks
    \/ CheckMemory /\ WithinEmit
    \/ MarkTreeBuildStart /\ WithinEmit
    \/ MarkTreeBuildEnd /\ WithinEmit
    \/ Reset
    \/ ScopeConstruct /\ WithinEmit
    \/ ScopeEnd /\ WithinEmit
    \/ ScopeDestroy /\ WithinEmit
    \/ MonitoringLoop /\ WithinEmit

Spec == Init /\ [][Next]_vars

\* The monitor alone, driven through its own public operations (no TreeBuildScope).
NextMonitor ==
    \/ Start
    \/ StartInitialCheck /\ WithinEmit
    \/ Stop
    \/ StopJoin /\ WithinEmit
    \/ SetThreshold
    \/ AddCallback
    \/ ClearCallbacks
    \/ CheckMemory /\ WithinEmit
    \/ MarkTreeBuildStart /\ WithinEmit
    \/ MarkTreeBuildEnd /\ WithinEmit
    \/ Reset
    \/ MonitoringLoop /\ WithinEmit

SpecMonitor == Init /\ [][NextMonitor]_vars

\* The monitor with its threshold changed between and during sessions, without
\* callbacks and tree-build marks.
NextThreshold ==
    \/ Start
    \/ StartInitialCheck /\ WithinEmit
    \/ Stop
    \/ StopJoin /\ WithinEmit
    \/ SetThreshold
    \/ CheckMemory /\ WithinEmit
    \/ Reset
    \/ MonitoringLoop /\ WithinEmit

SpecThreshold == Init /\ [][NextThreshold]_vars

\* The monitor with callbacks that return and callbacks that throw.
WithinObserverEmit == n_emitted' <= MaxObserverEmit

AddObserver == callbacks < MaxObservers /\ \E throws \in BOOLEAN : AddCallbackWith(throws)

NextObserver ==
    \/ Start
    \/ StartInitialCheck /\ WithinObserverEmit
    \/ Stop
    \/ StopJoin /\ WithinObserverEmit
    \/ AddObserver
    \/ ClearCallbacks
    \/ CheckMemory /\ WithinObserverEmit
    \/ MarkTreeBuildStart /\ WithinObserverEmit
    \/ MonitoringLoop /\ WithinObserverEmit

\* The reporter works and the background thread is enabled.
InitObserver ==
    /\ Init
    /\ platform_supported
    /\ enable_background

SpecObserver == InitObserver /\ [][NextObserver]_vars

\* The monitor through its sessions, to its destruction.
WithinThreadEmit == n_emitted' <= MaxThreadEmit

NextThread ==
    \/ Start
    \/ StartInitialCheck /\ WithinThreadEmit
    \/ Stop
    \/ StopJoin
    \/ Destroy
    \/ DestroyJoin
    \/ CheckMemory /\ WithinThreadEmit
    \/ MonitoringLoopCheck /\ WithinThreadEmit
    \/ MonitoringLoopWait

SpecThread == Init /\ [][NextThread]_vars

\* The monitor in a process whose memory does not change: the reporter returns
\* HighReading at every call.
HighReading == 60 * MB + (MB \div 2)

InitSteady ==
    /\ Init
    /\ platform_supported

WithinSteadyEmit == n_emitted' <= MaxSteadyEmit

NextSteady ==
    \/ Start
    \/ \E elapsed \in Elapsed :
          StartInitialCheckWith(HighReading, elapsed) /\ WithinSteadyEmit
    \/ Stop
    \/ StopJoin
    \/ SetThreshold
    \/ \E context \in Contexts, elapsed \in Elapsed :
          CheckMemoryWith(context, HighReading, elapsed) /\ WithinSteadyEmit
    \/ \E elapsed \in Elapsed :
          MonitoringLoopWith(HighReading, elapsed) /\ WithinSteadyEmit

SpecSteady == InitSteady /\ [][NextSteady]_vars

\* A client that builds trees one after another in a monitored session, each
\* inside a TreeBuildScope with a context of its own: the i-th scope carries
\* context i, so scope.context is the number of scopes constructed so far.
InitPaired ==
    /\ Init
    /\ platform_supported

WithinPairedEmit == n_emitted' <= MaxPairedEmit

NextPaired ==
    \/ Start
    \/ StartInitialCheck /\ WithinPairedEmit
    \/ ~scope.alive /\ Stop
    \/ StopJoin
    \/ /\ monitoring_active
       /\ scope.context < MaxScopes
       /\ \E bytes \in BytesRead, elapsed \in Elapsed :
             ScopeConstructWith(scope.context + 1, bytes, elapsed)
       /\ WithinPairedEmit
    \/ ScopeDestroy /\ WithinPairedEmit
    \/ MonitoringLoop /\ WithinPairedEmit

SpecPaired == InitPaired /\ [][NextPaired]_vars

\* ------------------------------------------------- the utilities' clients
\* A monitor that is constructed and not used.
MonitorUnused ==
    /\ Init
    /\ threshold = 60
    /\ ~enable_background
    /\ ~platform_supported

\* A call of estimate_tree_memory_usage
EstimateTreeMemoryUsage ==
    /\ \E num_points \in NumPoints, dimension \in Dimensions,
          point_type_size \in PointTypeSizes :
          \E result \in estimate_tree_memory_usage(num_points, dimension, point_type_size) :
              estimate_call' = [called |-> TRUE, num_points |-> num_points,
                                dimension |-> dimension,
                                point_type_size |-> point_type_size,
                                result |-> result]
    /\ estimate_prev' = estimate_call
    /\ UNCHANGED <<monitor_vars, beside_estimates>>

SpecEstimate == MonitorUnused /\ [][EstimateTreeMemoryUsage]_vars

\* The monitor constructed with a custom memory reporter, on a platform whose
\* reader works.
InitReporter ==
    /\ MemoryMonitor("custom")
    /\ platform_supported

WithinReporterEmit == n_emitted' <= MaxReporterEmit

NextReporter ==
    \/ Start
    \/ StartInitialCheck /\ WithinReporterEmit
    \/ Stop
    \/ StopJoin
    \/ CheckMemory /\ WithinReporterEmit
    \/ MonitoringLoop /\ WithinReporterEmit

SpecReporter == InitReporter /\ [][NextReporter]_vars

\* What currentRSS() can return, in bytes: 0 when /proc/self/statm cannot be
\* opened.
RSSReadings == {0, 2 * MB, 3 * MB, 8 * MB}
\* threshold_bytes of the watchers
WatcherThresholds == {0, MB, 6 * MB}

\* Mutant of reportIfExceeded: reports at the threshold too.
reportIfExceededInclusive(log, final_rss) ==
    LET diff == (peak_rss_' - baseline_rss_) % Word
    IN  IF diff >= threshold_
        THEN Append(log, [bytes |-> diff, watcher |-> watcher,
                          watcher_thread_ |-> watcher_thread_, final_rss |-> final_rss])
        ELSE log

\* reportIfExceeded(), called with peak_rss_ as the destructor has left it:
\* the log of callback_ calls that it leaves
reportIfExceeded(log, final_rss) ==
    LET diff == (peak_rss_' - baseline_rss_) % Word
    IN  IF diff > threshold_
        THEN Append(log, [bytes |-> diff, watcher |-> watcher,
                          watcher_thread_ |-> watcher_thread_, final_rss |-> final_rss])
        ELSE log

\* PeakMemoryWatcher(threshold_bytes, sampling_period, callback)
PeakMemoryWatcher ==
    /\ watcher = "none"
    /\ \E threshold_bytes \in WatcherThresholds, rss \in RSSReadings :
          /\ threshold_' = threshold_bytes
          /\ baseline_rss_' = rss
          /\ peak_rss_' = rss
          /\ rss_seen' = {rss}
          /\ running_' = (rss # 0)
          /\ watcher_thread_' = (IF rss = 0 THEN "none" ELSE "test")
    /\ watcher' = "alive"
    /\ UNCHANGED <<callback_log, monitor_vars, beside_watchers>>

\* watchLoop: while (running_.load())
watchLoopTest ==
    /\ watcher_thread_ = "test"
    /\ watcher_thread_' = (IF running_ THEN "sample" ELSE "done")
    /\ UNCHANGED <<threshold_, baseline_rss_, peak_rss_, running_, watcher, rss_seen,
                   callback_log, monitor_vars, beside_watchers>>

\* watchLoop: the body of the loop
watchLoopSample ==
    /\ watcher_thread_ = "sample"
    /\ \E rss \in RSSReadings :
          /\ peak_rss_' = (IF rss > peak_rss_ THEN rss ELSE peak_rss_)
          /\ rss_seen' = rss_seen \cup {rss}
    /\ watcher_thread_' = "test"
    /\ UNCHANGED <<threshold_, baseline_rss_, running_, watcher, callback_log,
                   monitor_vars, beside_watchers>>

\* ~PeakMemoryWatcher(), up to the join
WatcherDestroy ==
    /\ watcher = "alive"
    /\ running_' = FALSE
    /\ watcher' = (IF running_ /\ watcher_thread_ # "none" THEN "join" ELSE "final")
    /\ UNCHANGED <<threshold_, baseline_rss_, peak_rss_, watcher_thread_, rss_seen,
                   callback_log, monitor_vars, beside_watchers>>

\* ~PeakMemoryWatcher(): watcher_thread_.join() returns
WatcherJoin ==
    /\ watcher = "join"
    /\ watcher_thread_ = "done"
    /\ watcher_thread_' = "joined"
    /\ watcher' = "final"
    /\ UNCHANGED <<threshold_, baseline_rss_, peak_rss_, running_, rss_seen,
                   callback_log, monitor_vars, beside_watchers>>

\* ~PeakMemoryWatcher(): the final reading and reportIfExceeded()
WatcherFinal ==
    /\ watcher = "final"
    /\ \E final_rss \in RSSReadings :
          /\ peak_rss_' = (IF final_rss > peak_rss_ THEN final_rss ELSE peak_rss_)
          /\ rss_seen' = rss_seen \cup {final_rss}
          /\ callback_log' = reportIfExceeded(callback_log, final_rss)
    /\ watcher' = "destroyed"
    /\ UNCHANGED <<threshold_, baseline_rss_, running_, watcher_thread_,
                   monitor_vars, beside_watchers>>

NextWatcher ==
    \/ PeakMemoryWatcher
    \/ watchLoopTest
    \/ watchLoopSample
    \/ WatcherDestroy
    \/ WatcherJoin
    \/ WatcherFinal

SpecWatcher == MonitorUnused /\ [][NextWatcher]_vars

\* What the memory checker of the tree's monitor can return, in bytes.
TreeReadings == {MB, 2 * MB, 3 * MB}
\* memory_threshold_bytes of the trees
TreeThresholds == {1024, 2 * MB}
\* dimensionality of the trees
TreeDimensions == {0, 3}
\* kdtree_get_point_count() of the datasets
PointCounts == 0..MaxPoints
\* params.n_thread_build
ThreadCounts == {1, 2}

\* Mutant of checkMemoryLimit: a reading at the threshold exceeds it.
checkMemoryLimitInclusive(bytes) == bytes >= memory_threshold_

\* MemoryMonitor::checkMemoryLimit(), the memory checker returning bytes
checkMemoryLimit(bytes) == bytes > memory_threshold_

\* Mutant of init: an empty dataset is accepted.
init_any_size(dimensionality, count) ==
    IF dimensionality = 0 THEN "runtime_error" ELSE "none"

\* init(dimensionality) over a dataset of count points: the exception it throws
init(dimensionality, count) ==
    IF dimensionality = 0 THEN "runtime_error"
    ELSE IF count = 0 THEN "runtime_error"
    ELSE "none"

\* MemoryMonitoredKDTree(dimensionality, inputData, params, memory_threshold_bytes),
\* up to the call of buildIndex
MemoryMonitoredKDTree ==
    /\ kdtree = "none"
    /\ \E dimensionality \in TreeDimensions, count \in PointCounts,
          memory_threshold_bytes \in TreeThresholds, skip \in BOOLEAN,
          n_thread_build \in ThreadCounts :
          /\ memory_threshold_' = memory_threshold_bytes
          /\ dataset_' = count
          /\ dim_' = dimensionality
          /\ n_thread_build_' = n_thread_build
          /\ size_' = (IF dimensionality = 0 THEN size_ ELSE count)
          /\ kdtree_error' = init(dimensionality, count)
          /\ kdtree' = (IF init(dimensionality, count) # "none" THEN "failed"
                        ELSE IF skip THEN "idle" ELSE "build")
    /\ UNCHANGED <<root_node_, pool_nodes, pending, limit_readings,
                   monitor_vars, beside_kdtrees>>

\* The client calls buildIndex() on a tree that exists; the dataset holds
\* count points by now.
BuildIndexCall ==
    /\ kdtree \in {"idle", "built"}
    /\ \E count \in PointCounts : dataset_' = count
    /\ kdtree' = "build"
    /\ UNCHANGED <<dim_, size_, n_thread_build_, memory_threshold_, root_node_,
                   pool_nodes, pending, kdtree_error, limit_readings,
                   monitor_vars, beside_kdtrees>>

\* buildIndex(), up to the construction of the tree
buildIndex ==
    /\ kdtree = "build"
    /\ size_' = dataset_
    /\ root_node_' = FALSE
    /\ pool_nodes' = 0
    /\ IF dataset_ = 0
       THEN /\ kdtree' = "built"
            /\ limit_readings' = <<>>
            /\ UNCHANGED <<pending, kdtree_error>>
       ELSE \E bytes \in TreeReadings :
              /\ limit_readings' = <<[bytes |-> bytes, pool_nodes |-> 0]>>
              /\ IF checkMemoryLimit(bytes)
                 THEN /\ kdtree' = "thrown"
                      /\ kdtree_error' = "MemoryLimitExceededException"
                      /\ UNCHANGED pending
                 ELSE /\ kdtree' = (IF n_thread_build_ = 1 THEN "divide"
                                    ELSE "divide_concurrent")
                      /\ pending' = (IF n_thread_build_ = 1 THEN <<dataset_>>
                                     ELSE <<>>)
                      /\ UNCHANGED kdtree_error
    /\ UNCHANGED <<dataset_, dim_, n_thread_build_, memory_threshold_,
                   monitor_vars, beside_kdtrees>>

\* MemoryMonitoredKDTreeBase::divideTree(obj, left, right, bbox), one call:
\* the check, the node, and the split that leaves its two calls to make
divideTree ==
    /\ kdtree = "divide"
    /\ \E bytes \in TreeReadings :
          /\ limit_readings' = Append(limit_readings,
                                      [bytes |-> bytes, pool_nodes |-> pool_nodes])
          /\ IF checkMemoryLimit(bytes)
             THEN /\ kdtree' = "thrown"
                  /\ kdtree_error' = "MemoryLimitExceededException"
                  /\ pending' = <<>>
                  /\ UNCHANGED <<pool_nodes, root_node_>>
             ELSE /\ pool_nodes' = pool_nodes + 1
                  /\ IF Head(pending) <= LeafMaxSize
                     THEN pending' = Tail(pending)
                     ELSE \E idx \in 1..(Head(pending) - 1) :
                            pending' = <<idx, Head(pending) - idx>> \o Tail(pending)
                  /\ root_node_' = (pending' = <<>>)
                  /\ kdtree' = (IF pending' = <<>> THEN "built" ELSE "divide")
                  /\ UNCHANGED kdtree_error
    /\ UNCHANGED <<dataset_, dim_, size_, n_thread_build_, memory_threshold_,
                   monitor_vars, beside_kdtrees>>

\* buildIndex(): Base::divideTreeConcurrent, the library's concurrent build,
\* which does not go through the monitored divideTree
divideTreeConcurrent ==
    /\ kdtree = "divide_concurrent"
    /\ root_node_' = TRUE
    /\ kdtree' = "built"
    /\ UNCHANGED <<dataset_, dim_, size_, n_thread_build_, memory_threshold_,
                   pool_nodes, pending, kdtree_error, limit_readings,
                   monitor_vars, beside_kdtrees>>

NextKDTree ==
    \/ MemoryMonitoredKDTree
    \/ BuildIndexCall
    \/ buildIndex
    \/ divideTree
    \/ divideTreeConcurrent

SpecKDTree == MonitorUnused /\ [][NextKDTree]_vars

\* ------------------------------------- trigger_event, section by section
\* check_memory on the active monitor up to the end of trigger_event's first
\* critical section: the reading, update_stats, and the event stored under
\* stats_mutex_. The readings are above the threshold and less than 1000 ms
\* apart; the events are numbered in the order of their storing.
StoreExceeded(prefix) ==
    LET current_mb == HighReading \div MB
        event == MemoryEvent("THRESHOLD_EXCEEDED", current_mb,
                             Context(prefix, n_emitted + 1))
    IN  store_event(update_stats(memory_reporter_(Snapshot), current_mb), event)

\* The client's check_memory (the one of start() first), up to the end of
\* the first critical section of trigger_event
ClientStores ==
    /\ client \in {"start_check", "ready"}
    /\ monitoring_active
    /\ client_event = <<>>
    /\ HighReading \div MB > threshold
    /\ n_emitted < MaxOrderEmit
    /\ LET S == StoreExceeded("") IN
          /\ Install(S)
          /\ client_event' = <<S.emitted[Len(S.emitted)]>>
    /\ UNCHANGED <<monitoring_active, config, observers, thread, client, scope,
                   scope_ends, last_start_stop, last_call, accesses,
                   loop_event, delivered, beside_deliveries>>

\* The client's trigger_event, second critical section: the callbacks, under
\* callbacks_mutex_; check_memory returns
ClientDispatches ==
    /\ client_event # <<>>
    /\ ClientCall(IF client = "start_check" THEN "start_return" ELSE "check_memory",
                  dispatch([Snapshot EXCEPT !.reads = 1], 1))
    /\ delivered' = (IF callbacks > 0 THEN Append(delivered, client_event[1])
                     ELSE delivered)
    /\ client_event' = <<>>
    /\ client' = "ready"
    /\ UNCHANGED <<monitoring_active, config, observers, thread, scope,
                   scope_ends, last_start_stop, accesses,
                   loop_event, beside_deliveries>>

\* The loop's check_memory("Background check"), up to the end of the first
\* critical section of trigger_event
LoopStores ==
    /\ monitor_thread = "running"
    /\ monitoring_active
    /\ loop_event = <<>>
    /\ HighReading \div MB > threshold
    /\ n_emitted < MaxOrderEmit
    /\ LET S == StoreExceeded("Background check") IN
          /\ Install(S)
          /\ loop_event' = <<S.emitted[Len(S.emitted)]>>
    /\ UNCHANGED <<monitoring_active, config, observers, thread, client, scope,
                   scope_ends, last_start_stop, last_call, accesses,
                   client_event, delivered, beside_deliveries>>

\* The loop's trigger_event, second critical section
LoopDispatches ==
    /\ loop_event # <<>>
    /\ Install(dispatch(Snapshot, 1))
    /\ delivered' = (IF callbacks > 0 THEN Append(delivered, loop_event[1])
                     ELSE delivered)
    /\ loop_event' = <<>>
    /\ UNCHANGED <<monitoring_active, config, observers, thread, client, scope,
                   scope_ends, last_start_stop, last_call, accesses,
                   client_event, beside_deliveries>>

\* A monitor with a threshold of 0 MB, a working reporter and the background
\* thread: callbacks are added, the monitor is started, and the checks of the
\* client and of the loop run side by side.
InitOrder ==
    /\ Init
    /\ threshold = 0
    /\ enable_background
    /\ platform_supported

NextOrder ==
    \/ ~monitoring_active /\ AddCallback
    \/ ~monitoring_active /\ Start
    \/ ClientStores
    \/ ClientDispatches
    \/ LoopStores
    \/ LoopDispatches

SpecOrder == InitOrder /\ [][NextOrder]_vars

\* ------------------------------------------------------------ MemoryTracker
\* the addresses that the allocator hands out; 0 is the null pointer
Pointers == {1, 2}
\* the sizes of the allocations
AllocSizes == {0, 8, 16}
\* config.threshold_bytes of the configurations
TrackerThresholds == {16, 50 * MB}

\* allocations_[ptr] = size
TableInsert(table, ptr, size) ==
    [p \in DOMAIN table \cup {ptr} |-> IF p = ptr THEN size ELSE table[p]]

\* allocations_.erase(it)
TableErase(table, ptr) == [p \in DOMAIN table \ {ptr} |-> table[p]]

\* MemoryTracker::track_allocation(ptr, size) with monitoring enabled
track_allocation(ptr, size) ==
    LET new_current == plus(stats_.current_usage, size)
        exceeds == config_.enable_threshold_alerts /\ new_current > config_.threshold_bytes
    IN  /\ stats_' = [current_usage |-> new_current,
                      peak_usage |-> IF new_current > stats_.peak_usage
                                     THEN new_current ELSE stats_.peak_usage,
                      total_allocations |-> plus(stats_.total_allocations, size),
                      allocation_count |-> stats_.allocation_count + 1,
                      threshold_exceeded |-> stats_.threshold_exceeded \/ exceeds]
        /\ allocations_' = (IF config_.enable_detailed_tracking
                            THEN TableInsert(allocations_, ptr, size)
                            ELSE allocations_)
        /\ alerted' = (exceeds /\ ~stats_.threshold_exceeded)

\* MemoryTracker::track_deallocation(ptr) with monitoring enabled and ptr not null
track_deallocation(ptr) ==
    LET found == config_.enable_detailed_tracking /\ ptr \in DOMAIN allocations_
        size == IF found THEN allocations_[ptr] ELSE 0
        current == (stats_.current_usage + Word - size) % Word
    IN  /\ allocations_' = (IF found THEN TableErase(allocations_, ptr) ELSE allocations_)
        /\ stats_' = (IF size > 0
                      THEN [stats_ EXCEPT !.current_usage = current,
                                          !.threshold_exceeded =
                                              IF current < config_.threshold_bytes
                                              THEN FALSE ELSE @]
                      ELSE stats_)
        /\ alerted' = FALSE

\* MemoryTracker::configure(config), before anything is allocated
Configure ==
    /\ heap = {}
    /\ stats_.allocation_count = 0
    /\ \E detailed \in BOOLEAN, threshold_bytes \in TrackerThresholds :
          /\ config_' = [enable_detailed_tracking |-> detailed,
                         enable_threshold_alerts |-> TRUE,
                         threshold_bytes |-> threshold_bytes]
          /\ config_' # config_
    /\ alerted' = FALSE
    /\ UNCHANGED <<monitoring_enabled_, stats_, allocations_, heap,
                   monitor_vars, beside_trackers>>

\* MemoryTracker::enable_monitoring(enable)
EnableMonitoring ==
    /\ \E enable \in BOOLEAN :
          /\ enable # monitoring_enabled_
          /\ monitoring_enabled_' = enable
    /\ alerted' = FALSE
    /\ UNCHANGED <<config_, stats_, allocations_, heap, monitor_vars, beside_trackers>>

\* The allocator hands out an address that is not in use and reports it
TrackAllocation ==
    /\ stats_.allocation_count < MaxAllocations
    /\ \E ptr \in Pointers \ heap, size \in AllocSizes :
          /\ heap' = heap \cup {ptr}
          /\ IF monitoring_enabled_
             THEN track_allocation(ptr, size)
             ELSE /\ alerted' = FALSE
                  /\ UNCHANGED <<stats_, allocations_>>
    /\ UNCHANGED <<monitoring_enabled_, config_, monitor_vars, beside_trackers>>

\* The allocator takes back an address in use, or the null pointer, and reports it
TrackDeallocation ==
    /\ \E ptr \in heap \cup {0} :
          /\ heap' = heap \ {ptr}
          /\ IF monitoring_enabled_ /\ ptr # 0
             THEN track_deallocation(ptr)
             ELSE /\ alerted' = FALSE
                  /\ UNCHANGED <<stats_, allocations_>>
    /\ UNCHANGED <<monitoring_enabled_, config_, monitor_vars, beside_trackers>>

NextTracker ==
    \/ Configure
    \/ EnableMonitoring
    \/ TrackAllocation
    \/ TrackDeallocation

SpecTracker == MonitorUnused /\ [][NextTracker]_vars

\* ----------------------------------------------------- MonitoredKDTreeIndex
\* what Base::buildIndex can throw
BaseExceptions == {"bad_alloc", "runtime_error"}

\* The types of the events that the step emits
NewlyEmitted ==
    [i \in 1..(Len(emitted') - Len(emitted)) |-> emitted'[Len(emitted) + i].type]

\* MonitoredKDTreeIndex(dimensionality, inputData, monitor_config): the base
\* constructor, then setup_monitoring(), which makes the monitor and adds the
\* callback unless enable_auto_monitoring is off
MonitoredKDTreeIndex ==
    /\ index_pc = "none"
    /\ index_pc' = "idle"
    /\ \E enable \in BOOLEAN :
          /\ enable_auto_monitoring' = enable
          /\ memory_monitor_' = enable
          /\ monitoring_active_' = enable
          /\ IF enable THEN AddCallbackCall(FALSE) ELSE UNCHANGED monitor_vars
    /\ UNCHANGED <<builds, build_enabled, build_log, base_error, build_result,
                   beside_indexes>>

\* set_monitoring_enabled(enable)
SetMonitoringEnabled ==
    /\ index_pc = "idle"
    /\ \E enable \in BOOLEAN :
          /\ enable # enable_auto_monitoring
          /\ enable_auto_monitoring' = enable
    /\ UNCHANGED <<index_pc, monitoring_active_, memory_monitor_, builds,
                   build_enabled, build_log, base_error, build_result,
                   monitor_vars, beside_indexes>>

\* buildIndex() without a monitor: Base::buildIndex() and its outcome
BuildIndexPlain ==
    /\ index_pc = "idle"
    /\ builds < MaxBuilds
    /\ ~monitoring_active_ \/ ~memory_monitor_
    /\ builds' = builds + 1
    /\ build_enabled' = enable_auto_monitoring
    /\ build_log' = <<"base">>
    /\ \E outcome \in {"none"} \cup BaseExceptions :
          /\ base_error' = outcome
          /\ build_result' = (IF outcome = "none" THEN "returned" ELSE outcome)
    /\ UNCHANGED <<index_pc, enable_auto_monitoring, monitoring_active_,
                   memory_monitor_, monitor_vars, beside_indexes>>

\* buildIndex() with a monitor: memory_monitor_->start(), up to its memory check
BuildIndexStart ==
    /\ index_pc = "idle"
    /\ builds < MaxBuilds
    /\ monitoring_active_ /\ memory_monitor_
    /\ builds' = builds + 1
    /\ build_enabled' = enable_auto_monitoring
    /\ build_log' = <<>>
    /\ base_error' = "none"
    /\ build_result' = "none"
    /\ StartCall
    /\ index_pc' = (IF monitoring_active THEN "started" ELSE "start_check")
    /\ UNCHANGED <<enable_auto_monitoring, monitoring_active_, memory_monitor_,
                   beside_indexes>>

\* buildIndex(): the memory check of start()
BuildIndexStartCheck ==
    /\ index_pc = "start_check"
    /\ \E bytes \in BytesRead, elapsed \in Elapsed : StartInitialCheckCall(bytes, elapsed)
    /\ build_log' = build_log \o NewlyEmitted
    /\ index_pc' = "started"
    /\ UNCHANGED <<enable_auto_monitoring, monitoring_active_, memory_monitor_,
                   builds, build_enabled, base_error, build_result, beside_indexes>>

\* buildIndex(): mark_tree_build_start(context_prefix + " buildIndex")
BuildIndexMarkStart ==
    /\ index_pc = "started"
    /\ \E context \in Contexts, bytes \in BytesRead, elapsed \in Elapsed :
          MarkTreeBuildStartCall(context, bytes, elapsed)
    /\ build_log' = build_log \o NewlyEmitted
    /\ index_pc' = "marked"
    /\ UNCHANGED <<enable_auto_monitoring, monitoring_active_, memory_monitor_,
                   builds, build_enabled, base_error, build_result, beside_indexes>>

\* buildIndex(): Base::buildIndex() inside the try block, and its outcome
BuildIndexBase ==
    /\ index_pc = "marked"
    /\ \E outcome \in {"none"} \cup BaseExceptions : base_error' = outcome
    /\ build_log' = Append(build_log, "base")
    /\ index_pc' = "based"
    /\ UNCHANGED <<enable_auto_monitoring, monitoring_active_, memory_monitor_,
                   builds, build_enabled, build_result, monitor_vars, beside_indexes>>

\* buildIndex(): mark_tree_build_end, after the base build or in the catch block
BuildIndexMarkEnd ==
    /\ index_pc = "based"
    /\ \E context \in Contexts, bytes \in BytesRead, elapsed \in Elapsed :
          MarkTreeBuildEndCall(context, bytes, elapsed)
    /\ build_log' = build_log \o NewlyEmitted
    /\ index_pc' = "ended"
    /\ UNCHANGED <<enable_auto_monitoring, monitoring_active_, memory_monitor_,
                   builds, build_enabled, base_error, build_result, beside_indexes>>

\* buildIndex(): memory_monitor_->stop(), up to the join
BuildIndexStop ==
    /\ index_pc = "ended"
    /\ StopCall
    /\ index_pc' = "stop_join"
    /\ UNCHANGED <<enable_auto_monitoring, monitoring_active_, memory_monitor_,
                   builds, build_enabled, build_log, base_error, build_result,
                   beside_indexes>>

\* buildIndex(): stop() ends; buildIndex returns, or rethrows from the catch block
BuildIndexReturn ==
    /\ index_pc = "stop_join"
    /\ StopJoinCall
    /\ build_log' = build_log \o NewlyEmitted
    /\ build_result' = (IF base_error = "none" THEN "returned" ELSE base_error)
    /\ index_pc' = "idle"
    /\ UNCHANGED <<enable_auto_monitoring, monitoring_active_, memory_monitor_,
                   builds, build_enabled, base_error, beside_indexes>>

\* get_memory_stats()
get_memory_stats ==
    IF memory_monitor_ THEN stats ELSE [current_memory_mb |-> 0, peak_memory_mb |-> 0]

\* An index over a monitor without a background thread, as setup_monitoring
\* configures it
InitIndex ==
    /\ Init
    /\ ~enable_background

NextIndex ==
    \/ MonitoredKDTreeIndex
    \/ SetMonitoringEnabled
    \/ BuildIndexPlain
    \/ BuildIndexStart
    \/ BuildIndexStartCheck
    \/ BuildIndexMarkStart
    \/ BuildIndexBase
    \/ BuildIndexMarkEnd
    \/ BuildIndexStop
    \/ BuildIndexReturn

SpecIndex == InitIndex /\ [][NextIndex]_vars

\* -------------------------------------------- KDTreeSingleIndexAdaptorLimited
\* sizeof(Node), what pool_.allocate<Node>() adds to pool_.usedMemory
NodeBytes == 40
\* What currentRSS() can return, in bytes; 0 where /proc/self/statm cannot be read
LimitedReadings == {0, MB, 3 * MB}
\* rssLimitBytes of the trees
RssLimits == {0, MB}
\* poolLimitBytes of the trees
PoolLimits == {0, NodeBytes}

\* Mutant of exceeded: a limit of 0 is a limit like any other.
exceeded_with_zero(rss_now, pool_bytes) ==
    \/ rss_now > build_baseline_rss_ /\ rss_now - build_baseline_rss_ > rss_limit_
    \/ pool_bytes > pool_limit_

\* exceeded(obj), with currentRSS() returning rss_now and
\* pool_.usedMemory + pool_.wastedMemory being pool_bytes
exceeded(rss_now, pool_bytes) ==
    \/ /\ rss_limit_ # 0
       /\ rss_now > build_baseline_rss_
       /\ rss_now - build_baseline_rss_ > rss_limit_
    \/ /\ pool_limit_ # 0
       /\ pool_bytes > pool_limit_

\* KDTreeSingleIndexAdaptorLimited(rssLimitBytes, poolLimitBytes, args...)
KDTreeSingleIndexAdaptorLimited ==
    /\ limited = "none"
    /\ limited' = "idle"
    /\ \E rssLimitBytes \in RssLimits, poolLimitBytes \in PoolLimits :
          /\ rss_limit_' = rssLimitBytes
          /\ pool_limit_' = poolLimitBytes
    /\ UNCHANGED <<build_baseline_rss_, limited_size_, limited_root_node_,
                   limited_pool_nodes, limited_pending, limited_error,
                   divide_calls, exceeded_log, monitor_vars, beside_limiteds>>

\* buildIndex() over a dataset of count points, up to the first call of
\* divideTreeLimited
buildIndexLimited ==
    /\ limited \in {"idle", "built", "thrown"}
    /\ \E rss_now \in LimitedReadings, count \in PointCounts :
          /\ build_baseline_rss_' = rss_now
          /\ limited_size_' = count
          /\ limited_pending' = (IF count = 0 THEN <<>> ELSE <<count>>)
          /\ limited' = (IF count = 0 THEN "built" ELSE "divide")
    /\ limited_root_node_' = FALSE
    /\ limited_pool_nodes' = 0
    /\ limited_error' = "none"
    /\ divide_calls' = 0
    /\ exceeded_log' = <<>>
    /\ UNCHANGED <<rss_limit_, pool_limit_, monitor_vars, beside_limiteds>>

\* divideTreeLimited(obj, left, right, bbox), one call: the test, the node and
\* the split that leaves its two calls to make; an exception leaves through the
\* catch block of buildIndex, which frees the index
divideTreeLimited ==
    /\ limited = "divide"
    /\ divide_calls' = divide_calls + 1
    /\ \E rss_now \in LimitedReadings, allocated \in BOOLEAN :
          LET pool_bytes == limited_pool_nodes * NodeBytes IN
          /\ exceeded_log' = Append(exceeded_log,
                                    [rss_now |-> rss_now, pool_bytes |-> pool_bytes])
          /\ IF exceeded(rss_now, pool_bytes) \/ ~allocated
             THEN /\ limited_error' = (IF exceeded(rss_now, pool_bytes)
                                       THEN "MemoryExceeded" ELSE "bad_alloc")
                  /\ limited_pool_nodes' = 0
                  /\ limited_root_node_' = FALSE
                  /\ limited_pending' = <<>>
                  /\ limited' = "thrown"
             ELSE /\ limited_pool_nodes' = limited_pool_nodes + 1
                  /\ IF Head(limited_pending) <= LeafMaxSize
                     THEN limited_pending' = Tail(limited_pending)
                     ELSE \E idx \in 1..(Head(limited_pending) - 1) :
                            limited_pending' =
                                <<idx, Head(limited_pending) - idx>> \o Tail(limited_pending)
                  /\ limited_root_node_' = (limited_pending' = <<>>)
                  /\ limited' = (IF limited_pending' = <<>> THEN "built" ELSE "divide")
                  /\ UNCHANGED limited_error
    /\ UNCHANGED <<rss_limit_, pool_limit_, build_baseline_rss_, limited_size_,
                   monitor_vars, beside_limiteds>>

NextLimited ==
    \/ KDTreeSingleIndexAdaptorLimited
    \/ buildIndexLimited
    \/ divideTreeLimited

SpecLimited == MonitorUnused /\ [][NextLimited]_vars

\* ---------------------------------------------------------- Debug containers
\* sizeof(T) of the vectors, which hold int
ElementBytes == 4
\* The thresholds that the client sets, in bytes
ContainerThresholds == {0, 20, 32}
\* The functions that the client installs
Streams == {1, 2}
\* std::vector::max_size(), in elements
max_size == ((Word \div 2) - 1) \div ElementBytes
\* The element counts of the operations; the byte size of the last one does
\* not fit a size_t
Counts == {0, 5, 6, 11, Word \div ElementBytes}

\* Mutant of print_allocation_info: a size at the threshold is reported.
print_allocation_info_inclusive(size) ==
    IF size >= memory_threshold
    THEN <<[stream |-> output_stream, bytes |-> size]>>
    ELSE <<>>

\* print_allocation_info(size, file, line, function): the invocations of the
\* output function that it makes
print_allocation_info(size) ==
    IF size > memory_threshold
    THEN <<[stream |-> output_stream, bytes |-> size]>>
    ELSE <<>>

\* DebugAllocator<T>::allocate(n), which the standard container calls where it
\* needs storage for n elements
allocate(n) == print_allocation_info((n * ElementBytes) % Word)

\* The element counts that std::vector may ask the allocator for where it
\* grows from size elements to count: the exact fit, or the doubled size
GrowthRequests(size, count) == {count, IF 2 * size > count THEN 2 * size ELSE count}

\* What a call leaves in container_call
ContainerCall(op, count, storage, thrown, outputs) ==
    container_call' = [op |-> op, count |-> count, storage |-> storage,
                       threshold |-> memory_threshold, installed |-> stream_passed,
                       thrown |-> thrown, outputs |-> outputs]

\* set_memory_threshold(threshold)
SetMemoryThreshold ==
    /\ \E t \in ContainerThresholds :
          /\ memory_threshold' = t
          /\ threshold_passed' = <<t>>
    /\ UNCHANGED <<output_stream, vec, container_call, stream_passed,
                   monitor_vars, beside_containers>>

\* set_output_stream(stream)
SetOutputStream ==
    /\ \E f \in Streams :
          /\ output_stream' = f
          /\ stream_passed' = <<f>>
    /\ UNCHANGED <<memory_threshold, vec, container_call, threshold_passed,
                   monitor_vars, beside_containers>>

\* Debug::vector<int> v(count): std::vector's constructor, which throws
\* length_error above max_size and else allocates count elements, then the
\* report of the wrapper
VectorConstruct ==
    /\ \E count \in Counts :
          IF count > max_size
          THEN /\ ContainerCall("construct", count, 0, TRUE, <<>>)
               /\ UNCHANGED vec
          ELSE /\ ContainerCall("construct", count, count, FALSE,
                                (IF count > 0 THEN allocate(count) ELSE <<>>)
                                \o print_allocation_info((count * ElementBytes) % Word))
               /\ vec' = [size |-> count, capacity |-> count]
    /\ UNCHANGED <<memory_threshold, output_stream, threshold_passed, stream_passed,
                   monitor_vars, beside_containers>>

\* Debug::vector<int> w = v: the copy constructor
VectorCopy ==
    /\ ContainerCall("copy", vec.size, vec.size, FALSE,
                     (IF vec.size > 0 THEN allocate(vec.size) ELSE <<>>)
                     \o print_allocation_info((vec.size * ElementBytes) % Word))
    /\ UNCHANGED <<memory_threshold, output_stream, vec, threshold_passed,
                   stream_passed, monitor_vars, beside_containers>>

\* v = other, other being another vector of count elements
VectorAssign ==
    /\ \E count \in Counts :
          /\ count <= max_size
          /\ ContainerCall("assign", count,
                           (IF count > vec.capacity THEN count ELSE 0), FALSE,
                           print_allocation_info((count * ElementBytes) % Word)
                           \o (IF count > vec.capacity THEN allocate(count) ELSE <<>>))
          /\ vec' = [size |-> count,
                     capacity |-> IF count > vec.capacity THEN count ELSE vec.capacity]
    /\ UNCHANGED <<memory_threshold, output_stream, threshold_passed, stream_passed,
                   monitor_vars, beside_containers>>

\* v.reserve(new_cap): the report of the wrapper, then std::vector::reserve
VectorReserve ==
    /\ \E new_cap \in Counts :
          LET report == print_allocation_info((new_cap * ElementBytes) % Word) IN
          IF new_cap > max_size
          THEN /\ ContainerCall("reserve", new_cap, 0, TRUE, report)
               /\ UNCHANGED vec
          ELSE /\ ContainerCall("reserve", new_cap,
                                (IF new_cap > vec.capacity THEN new_cap ELSE 0), FALSE,
                                report \o (IF new_cap > vec.capacity
                                           THEN allocate(new_cap) ELSE <<>>))
               /\ vec' = [vec EXCEPT !.capacity = IF new_cap > @ THEN new_cap ELSE @]
    /\ UNCHANGED <<memory_threshold, output_stream, threshold_passed, stream_passed,
                   monitor_vars, beside_containers>>

\* v.resize(count): the report of the wrapper, then std::vector::resize
VectorResize ==
    /\ \E count \in Counts :
          LET report == print_allocation_info((count * ElementBytes) % Word) IN
          IF count > max_size
          THEN /\ ContainerCall("resize", count, 0, TRUE, report)
               /\ UNCHANGED vec
          ELSE IF count > vec.capacity
          THEN \E n \in GrowthRequests(vec.size, count) :
                  /\ ContainerCall("resize", count, n, FALSE, report \o allocate(n))
                  /\ vec' = [size |-> count, capacity |-> n]
          ELSE /\ ContainerCall("resize", count, 0, FALSE, report)
               /\ vec' = [vec EXCEPT !.size = count]
    /\ UNCHANGED <<memory_threshold, output_stream, threshold_passed, stream_passed,
                   monitor_vars, beside_containers>>

\* get_memory_threshold()
get_memory_threshold == memory_threshold

NextContainer ==
    \/ SetMemoryThreshold
    \/ SetOutputStream
    \/ VectorConstruct
    \/ VectorCopy
    \/ VectorAssign
    \/ VectorReserve
    \/ VectorResize

SpecContainer == MonitorUnused /\ [][NextContainer]_vars

\* ------------------------------------------------- wait_for, step by step
\* wait_for(lock, check_interval_ms, pred), its first test of the predicate,
\* under stats_mutex_: with monitoring_active_ false it returns true and the
\* loop breaks, else the thread is about to block
WaitForTest ==
    /\ monitor_thread = "waiting"
    /\ cv.loop = "idle"
    /\ IF ~monitoring_active
       THEN /\ monitor_thread' = "done"
            /\ threads' = threads - 1
            /\ cv' = [loop |-> "idle", woken |-> "predicate"]
       ELSE /\ cv' = [cv EXCEPT !.loop = "tested"]
            /\ UNCHANGED thread
    /\ UNCHANGED <<monitoring_active, config, observers, client, scope, scope_ends,
                   last_start_stop, last_call, data, accesses, beside_waits>>

\* wait_for: the thread releases stats_mutex_ and blocks on monitor_cv_
WaitForBlock ==
    /\ monitor_thread = "waiting"
    /\ cv.loop = "tested"
    /\ cv' = [cv EXCEPT !.loop = "blocked"]
    /\ UNCHANGED <<monitor_vars, beside_waits>>

\* wait_for: the thread, notified, takes the mutex and tests the predicate
WaitForNotified ==
    /\ monitor_thread = "waiting"
    /\ cv.loop = "notified"
    /\ IF ~monitoring_active
       THEN /\ monitor_thread' = "done"
            /\ threads' = threads - 1
            /\ cv' = [loop |-> "idle", woken |-> "signal"]
       ELSE /\ cv' = [cv EXCEPT !.loop = "blocked"]
            /\ UNCHANGED thread
    /\ UNCHANGED <<monitoring_active, config, observers, client, scope, scope_ends,
                   last_start_stop, last_call, data, accesses, beside_waits>>

\* wait_for: check_interval_ms have passed with no notification received;
\* the thread takes the mutex and tests the predicate
WaitForTimeout ==
    /\ monitor_thread = "waiting"
    /\ cv.loop = "blocked"
    /\ IF ~monitoring_active
       THEN /\ monitor_thread' = "done"
            /\ threads' = threads - 1
            /\ cv' = [loop |-> "idle", woken |-> "timeout"]
       ELSE /\ monitor_thread' = "running"
            /\ UNCHANGED threads
            /\ cv' = [cv EXCEPT !.loop = "idle"]
    /\ UNCHANGED <<monitoring_active, config, observers, client, scope, scope_ends,
                   last_start_stop, last_call, data, accesses, beside_waits>>

\* stop(), up to the join: monitoring_active_.store(false) and
\* monitor_cv_.notify_all(), neither under stats_mutex_; the notification
\* reaches a thread that is blocked on monitor_cv_ and no other
StopNotify ==
    /\ StopCall
    /\ cv' = (IF monitoring_active /\ cv.loop = "blocked"
              THEN [cv EXCEPT !.loop = "notified"]
              ELSE cv)
    /\ UNCHANGED beside_waits

\* start() on a monitor whose last session is over
StartSession ==
    /\ StartCall
    /\ cv' = (IF monitoring_active THEN cv ELSE [loop |-> "idle", woken |-> "none"])
    /\ UNCHANGED beside_waits

\* The monitor with background monitoring enabled, the loop's wait_for taken
\* step by step.
InitWake ==
    /\ Init
    /\ enable_background

WithinWakeEmit == n_emitted' <= MaxWakeEmit

NextWake ==
    \/ StartSession
    \/ StartInitialCheck /\ WithinWakeEmit
    \/ StopNotify
    \/ StopJoin /\ WithinWakeEmit
    \/ MonitoringLoopCheck /\ WithinWakeEmit
    \/ WaitForTest
    \/ WaitForBlock
    \/ WaitForNotified
    \/ WaitForTimeout

SpecWake == InitWake /\ [][NextWake]_vars

\* ------------------------------- MemoryTracker, one atomic operation a step
\* Mutant of first_to_exceed: the flag's old value is not looked at.
first_to_exceed_always(flag) == TRUE

\* !stats_.threshold_exceeded.exchange(true), flag being the value replaced
first_to_exceed(flag) == ~flag

\* Mutant of compare_exchange: a plain store.
compare_exchange_store(peak, expected, desired) ==
    [ok |-> TRUE, peak |-> desired, expected |-> expected]

\* stats_.peak_usage.compare_exchange_weak(expected, desired): whether it
\* stored, the value of peak_usage after it and the value of expected after it
compare_exchange(peak, expected, desired) ==
    IF peak = expected
    THEN [ok |-> TRUE, peak |-> desired, expected |-> expected]
    ELSE [ok |-> FALSE, peak |-> peak, expected |-> peak]

\* No call of the tracker is in flight
Quiet ==
    /\ tracking.free_pc = "idle"
    /\ \A t \in TrackerThreads : tracking.pc[t] = "idle"

\* The addresses that a call in flight is about
InFlight == {tracking.ptr[t] : t \in {u \in TrackerThreads : tracking.pc[u] # "idle"}}

\* track_allocation(ptr, size) on thread t, with monitoring enabled: the
\* fetch_add operations on current_usage, allocation_count, total_allocations
AllocFetchAdd(t) ==
    /\ tracking.pc[t] = "idle"
    /\ monitoring_enabled_
    /\ stats_.allocation_count < MaxAllocations
    /\ \E ptr \in Pointers \ heap, size \in TrackingSizes :
          LET new_current == plus(stats_.current_usage, size) IN
          /\ heap' = heap \cup {ptr}
          /\ stats_' = [stats_ EXCEPT !.current_usage = new_current,
                                      !.allocation_count = @ + 1,
                                      !.total_allocations = plus(@, size)]
          /\ tracking' = [tracking EXCEPT
                            !.pc[t] = "load_peak", !.ptr[t] = ptr, !.size[t] = size,
                            !.new_current[t] = new_current,
                            !.max_current = IF new_current > @ THEN new_current ELSE @]
    /\ alerted' = FALSE
    /\ UNCHANGED <<monitoring_enabled_, config_, allocations_,
                   monitor_vars, beside_tracked>>

\* track_allocation: current_peak = stats_.peak_usage.load()
AllocLoadPeak(t) ==
    /\ tracking.pc[t] = "load_peak"
    /\ tracking' = [tracking EXCEPT !.pc[t] = "cas",
                                    !.current_peak[t] = stats_.peak_usage]
    /\ UNCHANGED <<trackers, monitor_vars, beside_tracked>>

\* track_allocation: one test of the while loop that updates the peak
AllocCas(t) ==
    /\ tracking.pc[t] = "cas"
    /\ IF tracking.new_current[t] > tracking.current_peak[t]
       THEN LET x == compare_exchange(stats_.peak_usage, tracking.current_peak[t],
                                      tracking.new_current[t])
            IN  /\ stats_' = [stats_ EXCEPT !.peak_usage = x.peak]
                /\ tracking' = [tracking EXCEPT
                                  !.pc[t] = IF x.ok THEN "table" ELSE "cas",
                                  !.retried = @ \/ ~x.ok,
                                  !.current_peak[t] = x.expected]
       ELSE /\ tracking' = [tracking EXCEPT !.pc[t] = "table"]
            /\ UNCHANGED stats_
    /\ UNCHANGED <<monitoring_enabled_, config_, allocations_, heap, alerted,
                   monitor_vars, beside_tracked>>

\* track_allocation: allocations_[ptr] = size under allocations_mutex_, if
\* detailed tracking is enabled
AllocTable(t) ==
    /\ tracking.pc[t] = "table"
    /\ allocations_' = (IF config_.enable_detailed_tracking
                        THEN TableInsert(allocations_, tracking.ptr[t], tracking.size[t])
                        ELSE allocations_)
    /\ tracking' = [tracking EXCEPT !.pc[t] = "threshold"]
    /\ UNCHANGED <<monitoring_enabled_, config_, stats_, heap, alerted,
                   monitor_vars, beside_tracked>>

\* track_allocation: the threshold test, the exchange on threshold_exceeded
\* and trigger_threshold_alert; the call returns
AllocThreshold(t) ==
    /\ tracking.pc[t] = "threshold"
    /\ LET exceeds == /\ config_.enable_threshold_alerts
                      /\ tracking.new_current[t] > config_.threshold_bytes
           fires == exceeds /\ first_to_exceed(stats_.threshold_exceeded)
       IN  /\ stats_' = [stats_ EXCEPT !.threshold_exceeded = @ \/ exceeds]
           /\ alerted' = fires
           /\ tracking' = [tracking EXCEPT !.pc[t] = "idle", !.ptr[t] = 0,
                                           !.size[t] = 0, !.new_current[t] = 0,
                                           !.current_peak[t] = 0,
                                           !.alerts = IF fires THEN @ + 1 ELSE @]
    /\ UNCHANGED <<monitoring_enabled_, config_, allocations_, heap,
                   monitor_vars, beside_tracked>>

\* track_deallocation(ptr) of an address in use: the table under
\* allocations_mutex_, then fetch_sub on current_usage
FreeFetchSub ==
    /\ tracking.free_pc = "idle"
    /\ \E ptr \in heap \ InFlight :
          LET found == config_.enable_detailed_tracking /\ ptr \in DOMAIN allocations_
              size == IF found THEN allocations_[ptr] ELSE 0
          IN  /\ heap' = heap \ {ptr}
              /\ IF monitoring_enabled_
                 THEN /\ allocations_' = (IF found THEN TableErase(allocations_, ptr)
                                          ELSE allocations_)
                      /\ stats_' = [stats_ EXCEPT !.current_usage =
                                                     (@ + Word - size) % Word]
                      /\ tracking' = [tracking EXCEPT
                                        !.free_pc = IF size > 0 THEN "load" ELSE "idle"]
                 ELSE UNCHANGED <<allocations_, stats_, tracking>>
    /\ alerted' = FALSE
    /\ UNCHANGED <<monitoring_enabled_, config_, monitor_vars,
                   beside_tracked>>

\* track_deallocation: stats_.current_usage.load() < config_.threshold_bytes
FreeLoad ==
    /\ tracking.free_pc = "load"
    /\ tracking' = [tracking EXCEPT
                      !.free_pc = "store",
                      !.below = stats_.current_usage < config_.threshold_bytes]
    /\ UNCHANGED <<trackers, monitor_vars, beside_tracked>>

\* track_deallocation: stats_.threshold_exceeded.store(false) if the usage
\* loaded was below the threshold; the call returns
FreeStore ==
    /\ tracking.free_pc = "store"
    /\ stats_' = [stats_ EXCEPT !.threshold_exceeded = IF tracking.below THEN FALSE ELSE @]
    /\ tracking' = [tracking EXCEPT !.free_pc = "idle", !.below = FALSE,
                                    !.alerts = IF tracking.below THEN 0 ELSE @]
    /\ UNCHANGED <<monitoring_enabled_, config_, allocations_, heap, alerted,
                   monitor_vars, beside_tracked>>

\* MemoryTracker::reset_stats() between the calls
ResetStats ==
    /\ Quiet
    /\ stats_ # [current_usage |-> 0, peak_usage |-> 0, total_allocations |-> 0,
                 allocation_count |-> 0, threshold_exceeded |-> FALSE]
    /\ stats_' = [current_usage |-> 0, peak_usage |-> 0, total_allocations |-> 0,
                  allocation_count |-> 0, threshold_exceeded |-> FALSE]
    /\ allocations_' = (IF config_.enable_detailed_tracking THEN <<>> ELSE allocations_)
    /\ tracking' = [tracking EXCEPT !.alerts = 0, !.max_current = 0,
                                    !.retried = FALSE]
    /\ alerted' = FALSE
    /\ UNCHANGED <<monitoring_enabled_, config_, heap, monitor_vars,
                   beside_tracked>>

\* configure(config) between the calls
ConfigureQuiet == Quiet /\ Configure

NextTracking ==
    \/ ConfigureQuiet
    \/ EnableMonitoring
    \/ \E t \in TrackerThreads : AllocFetchAdd(t)
    \/ \E t \in TrackerThreads : AllocLoadPeak(t)
    \/ \E t \in TrackerThreads : AllocCas(t)
    \/ \E t \in TrackerThreads : AllocTable(t)
    \/ \E t \in TrackerThreads : AllocThreshold(t)
    \/ FreeFetchSub
    \/ FreeLoad
    \/ FreeStore
    \/ ResetStats

SpecTracking == MonitorUnused /\ [][NextTracking]_vars

\* ---------------------------------------- callbacks that call their monitor
\* What a callback does with the monitor while it is invoked
CallbackBodies ==
    {"none", "add_callback", "clear_callbacks", "mark_tree_build_start",
     "mark_tree_build_end", "check_memory"}

\* The calls that end in trigger_event; check_memory does so with the
\* monitor active and a reading above the threshold
EmittingMethods == {"mark_tree_build_start", "mark_tree_build_end", "check_memory"}

\* add_callback(callback) outside a dispatch; body: what the callback calls
AddReentrantCallback ==
    /\ dispatching.pc = "idle"
    /\ Len(dispatching.callbacks_) < MaxReentrantCallbacks
    /\ \E body \in CallbackBodies :
          dispatching' = [dispatching EXCEPT !.callbacks_ = Append(@, body)]
    /\ UNCHANGED <<monitor_vars, beside_dispatchings>>

\* A call that emits an event, as far as trigger_event's lock of
\* callbacks_mutex_: the event is in the history (stats_mutex_ is released
\* again) and the loop over callbacks_ begins
TriggerEventLock ==
    /\ dispatching.pc = "idle"
    /\ dispatching.stored < MaxReentrantEmit
    /\ dispatching.callbacks_ # <<>>
    /\ \E method \in EmittingMethods :
          dispatching' = [dispatching EXCEPT !.pc = "loop", !.index = 1,
                                             !.call = method,
                                             !.callbacks_mutex_ = "held",
                                             !.stored = @ + 1]
    /\ UNCHANGED <<monitor_vars, beside_dispatchings>>

\* trigger_event: callback(event) for the callback at index; the callback
\* starts the call of its body. A nested add_callback or clear_callbacks
\* goes straight to its lock_guard on callbacks_mutex_; the others build
\* their event and store it first.
CallbackInvoke ==
    /\ dispatching.pc = "loop"
    /\ dispatching.index <= Len(dispatching.callbacks_)
    /\ LET body == dispatching.callbacks_[dispatching.index] IN
       dispatching' =
           IF body = "none"
           THEN [dispatching EXCEPT !.index = @ + 1]
           ELSE [dispatching EXCEPT !.pc = "nested_lock", !.nested = body,
                                    !.stored = IF body \in EmittingMethods
                                               THEN @ + 1 ELSE @]
    /\ UNCHANGED <<monitor_vars, beside_dispatchings>>

\* The nested call locks callbacks_mutex_, a std::mutex that its own thread
\* holds: undefined. The thread blocks on itself for ever.
NestedLockBlocks ==
    /\ dispatching.pc = "nested_lock"
    /\ dispatching.callbacks_mutex_ = "held"
    /\ dispatching' = [dispatching EXCEPT !.pc = "deadlock"]
    /\ UNCHANGED <<monitor_vars, beside_dispatchings>>

\* The nested call locks callbacks_mutex_, a std::mutex that its own thread
\* holds: undefined. lock() throws std::system_error, which leaves the nested
\* call and the callback and is caught by trigger_event's catch (...); the
\* nested call has done nothing of its own.
NestedLockThrows ==
    /\ dispatching.pc = "nested_lock"
    /\ dispatching.callbacks_mutex_ = "held"
    /\ dispatching' = [dispatching EXCEPT !.pc = "loop", !.index = @ + 1,
                                          !.nested = "none", !.abandoned = @ + 1]
    /\ UNCHANGED <<monitor_vars, beside_dispatchings>>

\* trigger_event: the loop is over, the lock_guard releases callbacks_mutex_
\* and the dispatching call goes on to its end
TriggerEventReturn ==
    /\ dispatching.pc = "loop"
    /\ dispatching.index > Len(dispatching.callbacks_)
    /\ dispatching' = [dispatching EXCEPT !.pc = "idle", !.index = 0,
                                          !.call = "none",
                                          !.callbacks_mutex_ = "free",
                                          !.completed = @ + 1]
    /\ UNCHANGED <<monitor_vars, beside_dispatchings>>

\* clear_callbacks() outside a dispatch
ClearReentrantCallbacks ==
    /\ dispatching.pc = "idle"
    /\ dispatching.callbacks_ # <<>>
    /\ dispatching' = [dispatching EXCEPT !.callbacks_ = <<>>]
    /\ UNCHANGED <<monitor_vars, beside_dispatchings>>

NextReentrant ==
    \/ AddReentrantCallback
    \/ ClearReentrantCallbacks
    \/ TriggerEventLock
    \/ CallbackInvoke
    \/ NestedLockBlocks
    \/ NestedLockThrows
    \/ TriggerEventReturn

SpecReentrant == MonitorUnused /\ [][NextReentrant]_vars

\* ------------------------------------------- NanoFlannMemory::MemoryMonitor
\* MemoryTracker::enable_monitoring(enable) by the program while no
\* MemoryMonitor is alive
SwitchMonitoring ==
    /\ \A i \in MonitorIds : ~monitors.alive[i]
    /\ \E enable \in BOOLEAN :
          /\ enable # monitoring_enabled_
          /\ monitoring_enabled_' = enable
          /\ monitors' = [monitors EXCEPT !.before = enable]
    /\ UNCHANGED <<config_, stats_, allocations_, heap, alerted, monitor_vars,
                   beside_lived>>

\* MemoryMonitor(config) for object i: the switch is saved and turned on,
\* the configuration installed and the periodic monitor started if asked for
MonitorConstruct(i) ==
    /\ ~monitors.alive[i]
    /\ \E detailed \in BOOLEAN, threshold_bytes \in TrackerThresholds,
          enable_periodic_reports \in BOOLEAN :
          /\ config_' = [enable_detailed_tracking |-> detailed,
                         enable_threshold_alerts |-> TRUE,
                         threshold_bytes |-> threshold_bytes]
          /\ monitors' = [monitors EXCEPT
                            !.alive[i] = TRUE,
                            !.was_monitoring_enabled_[i] = monitoring_enabled_,
                            !.periodic[i] = enable_periodic_reports,
                            !.before = IF \E j \in MonitorIds : monitors.alive[j]
                                       THEN @ ELSE monitoring_enabled_]
    /\ monitoring_enabled_' = TRUE
    /\ UNCHANGED <<stats_, allocations_, heap, alerted, monitor_vars, beside_lived>>

\* ~MemoryMonitor() of object i: periodic_monitor_.stop() and
\* enable_monitoring(was_monitoring_enabled_)
MonitorDestroy(i) ==
    /\ monitors.alive[i]
    /\ monitors' = [monitors EXCEPT !.alive[i] = FALSE, !.periodic[i] = FALSE,
                                    !.was_monitoring_enabled_[i] = FALSE]
    /\ monitoring_enabled_' = monitors.was_monitoring_enabled_[i]
    /\ UNCHANGED <<config_, stats_, allocations_, heap, alerted, monitor_vars,
                   beside_lived>>

NextLifetime ==
    \/ SwitchMonitoring
    \/ \E i \in MonitorIds : MonitorConstruct(i)
    \/ \E i \in MonitorIds : MonitorDestroy(i)

SpecLifetime == MonitorUnused /\ [][NextLifetime]_vars

\* The monitor next to another instance in the same process.
InitInstances ==
    /\ Init
    /\ platform_supported

WithinInstanceEmit == n_emitted' <= MaxInstanceEmit

NextInstances ==
    \/ Start
    \/ StartInitialCheck /\ WithinInstanceEmit
    \/ Stop
    \/ StopJoin
    \/ CheckMemory /\ WithinInstanceEmit
    \/ MonitoringLoop /\ WithinInstanceEmit
    \/ OtherInstanceCheck

SpecInstances == InitInstances /\ [][NextInstances]_vars

\* The monitor with background monitoring enabled, its loop taken in two steps.
InitStop ==
    /\ Init
    /\ enable_background

WithinStopEmit == n_emitted' <= MaxStopEmit

NextStop ==
    \/ Start
    \/ StartInitialCheck /\ WithinStopEmit
    \/ Stop
    \/ StopJoin
    \/ CheckMemory /\ WithinStopEmit
    \/ MonitoringLoopCheck /\ WithinStopEmit
    \/ MonitoringLoopWait

\* The thread is scheduled, its timed wait ends, and join() returns once the
\* thread has ended.
FairStop ==
    /\ WF_vars(MonitoringLoopCheck /\ WithinStopEmit)
    /\ WF_vars(MonitoringLoopWait)
    /\ WF_vars(StopJoin)

SpecStop == InitStop /\ [][NextStop]_vars /\ FairStop

\* The monitor with TreeBuildScope objects made and ended around its sessions.
WithinScopeEmit == n_emitted' <= MaxScopeEmit

NextScope ==
    \/ Start
    \/ StartInitialCheck /\ WithinScopeEmit
    \/ Stop
    \/ StopJoin /\ WithinScopeEmit
    \/ ScopeConstruct /\ WithinScopeEmit
    \/ ScopeEnd /\ WithinScopeEmit
    \/ ScopeDestroy /\ WithinScopeEmit
    \/ MonitoringLoop /\ WithinScopeEmit

SpecScope == Init /\ [][NextScope]_vars

\* A client that emits more than MaxHistory events in one session: with a
\* threshold of 0 MB and the background thread running, it calls
\* check_memory (above the threshold), mark_tree_build_start and
\* mark_tree_build_end in turn and lets the loop sample after them, each call
\* with a context of its own (the number of events so far).
InitHistory ==
    /\ Init
    /\ threshold = 0
    /\ enable_background
    /\ platform_supported

WithinHistory == n_emitted' <= MaxHistory + HistoryExtra

NextHistory ==
    \/ Start
    \/ StartInitialCheck /\ WithinHistory
    \/ /\ monitoring_active
       /\ n_emitted % 4 = 0
       /\ CheckMemoryWith(n_emitted, HighReading, FALSE)
       /\ WithinHistory
    \/ /\ monitoring_active
       /\ n_emitted % 4 = 1
       /\ MarkTreeBuildStartWith(n_emitted, 0, FALSE)
       /\ WithinHistory
    \/ /\ monitoring_active
       /\ n_emitted % 4 = 2
       /\ MarkTreeBuildEndWith(n_emitted, 0, FALSE)
       /\ WithinHistory
    \/ /\ client = "ready"
       /\ n_emitted % 4 = 3
       /\ MonitoringLoopWith(HighReading, FALSE)
       /\ WithinHistory
    \/ /\ emitted # <<>>
       /\ n_emitted <= HistoryExtra
       /\ Reset

SpecHistory == InitHistory /\ [][NextHistory]_vars

\* ------------------------------------------------------------------- claims
Max(a, b) == IF a > b THEN a ELSE b

LastN(seq, n) == IF Len(seq) <= n THEN seq ELSE SubSeq(seq, Len(seq) - n + 1, Len(seq))

\* The events that a step appends to the record of emitted events.
NewEvents == IF Len(emitted') > Len(emitted)
             THEN {emitted'[i] : i \in (Len(emitted) + 1)..Len(emitted')}
             ELSE {}

\* What start() on an active monitor and stop() on an idle one leave alone.
monitor_state == <<monitoring_active, monitor_thread, client, stats, event_history,
                   emitted, callbacks, threshold, last_memory_mb, spike_clock_set>>

\* C1: a new monitor is not active; is_active() is true exactly when the most
\* recent of the start()/stop() calls was start(); start() on an active monitor
\* and stop() on an idle one return at once and change nothing: no thread is
\* spawned, stats and event history stay as they are.
C1_TwoStateMachine ==
    /\ ~monitoring_active
    /\ [][/\ monitoring_active' <=> (last_start_stop' = "start")
          /\ (monitoring_active /\ last_op' = "start_noop" /\ Start)
                => UNCHANGED monitor_state
          /\ (~monitoring_active /\ last_op' = "stop_noop" /\ Stop)
                => UNCHANGED monitor_state]_vars

\* start() has been called on a monitor that was active, its thread running.
C1_Witness ==
    /\ last_op = "start_noop"
    /\ monitoring_active
    /\ monitor_thread = "running"

\* C2, as claimed: a THRESHOLD_EXCEEDED event is emitted by a check_memory on
\* an active monitor only when the previous sample (stats_.current_memory_mb,
\* before the call) was not above the threshold.
C2_EdgeTriggered ==
    [][(/\ CheckMemory
        /\ monitoring_active
        /\ threshold' = threshold
        /\ \E e \in NewEvents : e.type = "THRESHOLD_EXCEEDED")
       => ~(stats.current_memory_mb > threshold)]_vars

\* C3: the event history holds at most MaxHistory events, and they are the
\* last MaxHistory events emitted since the last reset, in emission order.
C3_HistoryBound ==
    /\ Len(event_history) <= MaxHistory
    /\ event_history = LastN(emitted, MaxHistory)

\* More than MaxHistory events have been emitted, the history is full.
C3_Witness ==
    /\ Len(emitted) > MaxHistory + 1
    /\ Len(event_history) = MaxHistory

\* C4: but for reset(), no step lowers the recorded peak, and after every step
\* the recorded peak is at least the recorded current value.
C4_PeakMonotone ==
    [][/\ Reset \/ stats'.peak_memory_mb >= stats.peak_memory_mb
       /\ stats'.peak_memory_mb >= stats'.current_memory_mb]_vars

\* A sample has been taken that read less than the peak of the session.
C4_Witness ==
    /\ monitoring_active
    /\ last_op = "check_memory"
    /\ last_reads = 1
    /\ stats.peak_memory_mb > stats.current_memory_mb

\* C5: a TreeBuildScope has emitted one TREE_BUILD_END event once it is ended
\* (by end(), by several end(), by its destructor), and none before.
C5_ScopeEndOnce == scope_ends = (IF scope.ended THEN 1 ELSE 0)

\* A scope has been destroyed on an active monitor after an explicit end():
\* the destructor ran no memory check.
C5_Witness ==
    /\ last_op = "scope_destroy"
    /\ monitoring_active
    /\ last_reads = 0
    /\ scope_ends = 1

\* C6: when the reporter returns 0 on every call, no THRESHOLD_EXCEEDED and no
\* MEMORY_SPIKE_DETECTED event is emitted, whatever the threshold.
C6_UnknownReadingIsSilent ==
    ~platform_supported =>
        \A i \in 1..Len(emitted) :
            emitted[i].type \notin {"THRESHOLD_EXCEEDED", "MEMORY_SPIKE_DETECTED"}

\* A check has read 0 under a threshold of 0 MB.
C6_Witness ==
    /\ ~platform_supported
    /\ threshold = 0
    /\ last_op = "check_memory"
    /\ last_reads = 1

\* C7, as claimed: when stop() on an active monitor returns, it has taken a
\* reading.
C7_FinalSample == (last_op = "stop_return") => (last_reads = 1)

\* C8, as claimed: when start() on an idle monitor returns, the event history
\* is empty and the peak is the reading start() took.
C8_FreshHistory ==
    [][StartInitialCheck =>
          /\ event_history' = <<>>
          /\ stats'.peak_memory_mb = stats'.current_memory_mb]_vars

\* C9, as claimed: an event is appended only while the monitor is active.
C9_EventsOnlyWhileActive ==
    [][Len(emitted') > Len(emitted) => monitoring_active']_vars

\* C10: check_memory on an idle monitor takes no reading, leaves stats and
\* event history as they are and invokes no callback; on an active monitor it
\* takes one reading, which becomes the current value, and the peak is the
\* larger of the old peak and the reading.
C10_CheckMemoryFrame ==
    [][(last_op' = "check_memory" /\ CheckMemory) =>
          IF ~monitoring_active
          THEN /\ UNCHANGED <<stats, event_history, emitted, last_memory_mb,
                              spike_clock_set>>
               /\ last_reads' = 0
               /\ last_callbacks' = 0
          ELSE /\ last_reads' = 1
               /\ \E bytes \in ReporterValues :
                     stats'.current_memory_mb = bytes \div MB
               /\ stats'.peak_memory_mb =
                     Max(stats.peak_memory_mb, stats'.current_memory_mb)]_vars

\* check_memory has been called on an idle monitor that holds a callback, an
\* event and a peak.
C10_Witness ==
    /\ last_op = "check_memory"
    /\ ~monitoring_active
    /\ callbacks > 0
    /\ event_history # <<>>
    /\ stats.peak_memory_mb > 0

\* The registered callbacks, in registration order.
Registered == [i \in 1..callbacks |-> i]

RECURSIVE Repeat(_, _)
Repeat(seq, n) == IF n <= 0 THEN <<>> ELSE seq \o Repeat(seq, n - 1)

\* A client call that may emit events.
EmittingCall ==
    /\ last_op' \in {"start_return", "check_memory", "mark_tree_build_start"}
    /\ StartInitialCheck \/ CheckMemory \/ MarkTreeBuildStart

\* C11: no exception of a callback leaves trigger_event, in the client's calls
\* or in the background loop; a client call invokes, for each event it emits,
\* every registered callback once, in registration order, whether or not
\* callbacks throw; each emitted event is in the history, and a tree-build mark
\* emits its event.
C11_ObserversContained ==
    /\ ~escaped
    /\ [][/\ ~escaped'
          /\ EmittingCall =>
               /\ last_dispatch' = Repeat(Registered, Len(emitted') - Len(emitted))
               /\ last_callbacks' = callbacks * (Len(emitted') - Len(emitted))
               /\ event_history' = event_history
                                   \o SubSeq(emitted', Len(emitted) + 1, Len(emitted'))
               /\ MarkTreeBuildStart => Len(emitted') > Len(emitted)
         ]_vars

\* A tree-build mark has emitted an event to two callbacks, the first of which
\* throws: both were invoked, in order.
C11_Witness ==
    /\ last_op = "mark_tree_build_start"
    /\ callbacks = 2
    /\ 1 \in throwing
    /\ Len(last_dispatch) >= 2
    /\ SubSeq(last_dispatch, 1, 2) = <<1, 2>>

\* C12, as claimed: a check_memory on an active monitor emits at least one
\* event and invokes every registered callback at least once.
C12_EveryCheckEmits ==
    [][(monitoring_active /\ last_op' = "check_memory" /\ CheckMemory) =>
          /\ Len(emitted') > Len(emitted)
          /\ last_callbacks' >= callbacks]_vars

\* C13: reset(), on an active or an idle monitor, leaves the event history
\* empty and the stats cleared, and leaves monitoring_active_, the threshold,
\* the registered callbacks and the background thread as they are.
C13_ResetFrame ==
    [][(last_op' = "reset" /\ Reset) =>
          /\ event_history' = <<>>
          /\ stats' = [current_memory_mb |-> 0, peak_memory_mb |-> 0]
          /\ UNCHANGED <<monitoring_active, threshold, callbacks, throwing,
                         thread>>]_vars

\* reset() has returned on an active monitor that holds a callback and had
\* emitted events: history and stats are empty.
C13_Witness ==
    /\ last_op = "reset"
    /\ monitoring_active
    /\ callbacks > 0
    /\ n_emitted > 0
    /\ event_history = <<>>
    /\ stats.peak_memory_mb = 0

C15_ThreadOwnership ==
    /\ threads <= 1
    /\ (monitoring_active /\ enable_background) => threads = 1
    /\ (~enable_background) => threads = 0
    /\ (~monitoring_active /\ client \in {"ready", "destroyed"}) => threads = 0
    /\ client = "destroyed" => ~monitoring_active /\ monitor_thread \in {"none", "joined"}

\* The destructor has returned on a monitor that was active, in its second
\* session, with a background thread.
C15_Witness ==
    /\ client = "destroyed"
    /\ last_op = "destroy_return"
    /\ monitor_thread = "joined"
    /\ threads = 0
    /\ n_emitted >= 2

\* Two accesses conflict unsynchronized: same location, one of them a write,
\* neither atomic, and no mutex that both hold.
Unsynchronized(a, b) ==
    /\ a.loc = b.loc
    /\ a.write \/ b.write
    /\ a.guard # "atomic" /\ b.guard # "atomic"
    /\ a.guard = "none" \/ b.guard = "none" \/ a.guard # b.guard

\* C16, as claimed: at no point are the client's next access and the loop's
\* next access an unsynchronized conflicting pair.
C16_NoDataRace ==
    (client_pc # <<>> /\ loop_pc # <<>>) => ~Unsynchronized(Head(client_pc), Head(loop_pc))

\* The events that a memory check of this monitor would emit, read off the
\* snapshot S of its data, for a reading and a lapse of time.
WouldEmit(S, bytes, elapsed) ==
    process_memory_check(S, Context("", 1), bytes, elapsed).emitted

\* C17, as claimed: a step of another instance leaves unchanged the events
\* that this monitor emits at its next memory check, for every reading and
\* every lapse of time.
C17_InstancesIndependent ==
    [][OtherInstanceCheck =>
          \A bytes \in Readings, elapsed \in BOOLEAN :
              WouldEmit(Snapshot', bytes, elapsed) = WouldEmit(Snapshot, bytes, elapsed)]_vars

\* C18, as claimed: in a process whose readings are constant, no
\* MEMORY_SPIKE_DETECTED event is emitted, the first spike evaluation included.
C18_SteadyNoSpike ==
    \A i \in 1..Len(emitted) : emitted[i].type # "MEMORY_SPIKE_DETECTED"

\* C19: set_threshold(t) makes t the threshold that get_threshold() returns and
\* leaves stats, event history and spike baseline as they are; a memory check
\* on an active monitor emits THRESHOLD_EXCEEDED exactly when the sample it
\* takes is above the threshold in force at that call.
C19_ThresholdLive ==
    [][/\ \A t \in Thresholds :
             (last_op' = "configure" /\ SetThresholdWith(t)) =>
                 /\ threshold' = t
                 /\ UNCHANGED <<stats, event_history, emitted, n_emitted,
                                last_memory_mb, spike_clock_set>>
       /\ (monitoring_active /\ last_op' = "check_memory" /\ CheckMemory) =>
             ((\E event \in NewEvents : event.type = "THRESHOLD_EXCEEDED")
                 <=> stats'.current_memory_mb > threshold)
      ]_vars

\* set_threshold has raised the threshold to or above the reading of a
\* THRESHOLD_EXCEEDED event that is in the history.
C19_Witness ==
    /\ last_op = "configure"
    /\ \E i \in 1..Len(event_history) :
          /\ event_history[i].type = "THRESHOLD_EXCEEDED"
          /\ event_history[i].memory_mb <= threshold

\* The tree-build marks of the event history, in order.
IsMark(event) == event.type \in {"TREE_BUILD_START", "TREE_BUILD_END"}
Marks == SelectSeq(event_history, IsMark)

\* The marks are those of scope.context scopes built one after another: the
\* k-th scope's start, then its end unless the scope is still alive, each
\* with the scope's context.
MarksPaired ==
    /\ Len(Marks) = 2 * scope.context - (IF scope.alive THEN 1 ELSE 0)
    /\ \A k \in 1..Len(Marks) :
          /\ Marks[k].type = (IF k % 2 = 1 THEN "TREE_BUILD_START" ELSE "TREE_BUILD_END")
          /\ Marks[k].context = Context("", (k + 1) \div 2)

C21_EstimateMonotone ==
    (/\ estimate_prev.called
     /\ estimate_prev.num_points <= estimate_call.num_points
     /\ estimate_prev.dimension <= estimate_call.dimension
     /\ estimate_prev.point_type_size <= estimate_call.point_type_size)
        => estimate_prev.result <= estimate_call.result

\* C22: on a monitor constructed with a custom reporter, get_process_memory_usage
\* is never called, and a check_memory on the active monitor to which the
\* reporter returns b bytes leaves current_memory_mb = floor(b / 2^20).
C22_CustomReporter ==
    /\ ~platform_reader_called
    /\ [][\A bytes \in CustomReadings :
            (/\ monitoring_active
             /\ last_op' = "check_memory"
             /\ \E context \in Contexts, elapsed \in Elapsed :
                   CheckMemoryWith(context, bytes, elapsed))
               => /\ stats'.current_memory_mb = bytes \div MB
                  /\ last_reads' = 1
                  /\ ~platform_reader_called'
         ]_vars

\* A check_memory on the active monitor, its background loop enabled, has read
\* 50 MB or 51 MB - 1 from the custom reporter.
C22_Witness ==
    /\ memory_reporter = "custom"
    /\ last_op = "check_memory"
    /\ last_reads = 1
    /\ stats.current_memory_mb = 50
    /\ stats.peak_memory_mb = 50
    /\ monitoring_active
    /\ enable_background

\* The largest of a non-empty set of readings.
Largest(S) == CHOOSE x \in S : \A y \in S : y <= x

\* C23: callback_ is called at most once, in the destructor, after the final
\* reading and with the sampling thread joined if one was started; once the
\* watcher is destroyed it has been called exactly if the largest reading
\* taken, the final one included, minus the baseline is above threshold_, and
\* with that difference.
C23_ReportsOnceAtExit ==
    /\ Len(callback_log) <= 1
    /\ \A i \in 1..Len(callback_log) :
          /\ callback_log[i].watcher = "final"
          /\ callback_log[i].watcher_thread_ \in {"none", "joined"}
          /\ callback_log[i].final_rss \in rss_seen
          /\ callback_log[i].bytes = Largest(rss_seen) - baseline_rss_
    /\ watcher # "destroyed" => callback_log = <<>>
    /\ watcher = "destroyed" =>
          (callback_log # <<>> <=> Largest(rss_seen) - baseline_rss_ > threshold_)

\* A watcher has reported at its destruction a peak that its thread sampled:
\* the final reading was below it.
C23_Witness ==
    /\ watcher = "destroyed"
    /\ watcher_thread_ = "joined"
    /\ Len(callback_log) = 1
    /\ callback_log[1].final_rss < peak_rss_
    /\ baseline_rss_ < peak_rss_

\* The readings of this build that were above the threshold.
Exceeding == {i \in 1..Len(limit_readings) : limit_readings[i].bytes > memory_threshold_}

\* C24: buildIndex has thrown MemoryLimitExceededException exactly if a reading
\* of this build, at the check before the construction or at the start of a
\* divideTree call, was above the threshold; that reading is the last one, and
\* no node has been allocated since; a build all of whose readings were at or
\* below the threshold has not thrown.
C24_HardAbort ==
    /\ (kdtree_error = "MemoryLimitExceededException") <=> (Exceeding # {})
    /\ (kdtree_error = "MemoryLimitExceededException") <=> (kdtree = "thrown")
    /\ \A i \in Exceeding :
          /\ i = Len(limit_readings)
          /\ limit_readings[i].pool_nodes = pool_nodes
          /\ ~root_node_
    /\ kdtree = "built" => Exceeding = {}

\* A build has been aborted at the start of a divideTree call, after two nodes.
C24_Witness ==
    /\ kdtree = "thrown"
    /\ pool_nodes = 2
    /\ Len(limit_readings) = 4

Stored(event) == CHOOSE i \in 1..Len(emitted) : emitted[i] = event

\* C26, as claimed: the callbacks are invoked with the events in the order in
\* which the events were appended to the event history.
C26_DeliveredInLogOrder ==
    \A i, j \in 1..Len(delivered) :
        i < j => Stored(delivered[i]) < Stored(delivered[j])

RECURSIVE TableSum(_)
\* The sum of the sizes held in an allocation table.
TableSum(table) ==
    IF DOMAIN table = {} THEN 0
    ELSE LET p == CHOOSE q \in DOMAIN table : TRUE
         IN  table[p] + TableSum(TableErase(table, p))

\* C27, as claimed: with detailed tracking enabled, current_usage is the sum of
\* the sizes held in the allocation table, whatever calls of track_allocation
\* and track_deallocation were made with monitoring switched on and off.
C27_CurrentIsTableSum ==
    config_.enable_detailed_tracking => stats_.current_usage = TableSum(allocations_)

\* The place of the first entry x of a sequence, or 0.
First(seq, x) ==
    IF \E i \in 1..Len(seq) : seq[i] = x
    THEN CHOOSE i \in 1..Len(seq) : seq[i] = x /\ \A j \in 1..(i - 1) : seq[j] # x
    ELSE 0

\* The last buildIndex emitted TREE_BUILD_START before the base build and
\* TREE_BUILD_END after it, ended as the base build did, and left the monitor
\* not active.
Bracketed ==
    /\ First(build_log, "TREE_BUILD_START") > 0
    /\ First(build_log, "TREE_BUILD_START") < First(build_log, "base")
    /\ \E i \in 1..Len(build_log) :
          build_log[i] = "TREE_BUILD_END" /\ i > First(build_log, "base")
    /\ build_result = (IF base_error = "none" THEN "returned" ELSE base_error)
    /\ ~monitoring_active

\* C28, as claimed: a buildIndex called with monitoring enabled is bracketed
\* with TREE_BUILD_START and TREE_BUILD_END on both paths, rethrows what the
\* base build threw and leaves the monitor not active; while monitoring is
\* disabled no monitor exists and the memory stats are zero.
C28_BuildBracketed ==
    /\ index_pc = "idle" /\ builds > 0 /\ build_enabled => Bracketed
    /\ index_pc # "none" /\ ~enable_auto_monitoring =>
          /\ ~memory_monitor_
          /\ get_memory_stats = [current_memory_mb |-> 0, peak_memory_mb |-> 0]

\* The calls of exceeded() in the last build that met an active limit.
OverLimit ==
    {i \in 1..Len(exceeded_log) :
        \/ /\ rss_limit_ > 0
           /\ exceeded_log[i].rss_now - build_baseline_rss_ > rss_limit_
        \/ /\ pool_limit_ > 0
           /\ exceeded_log[i].pool_bytes > pool_limit_}

\* C29: a buildIndex that has thrown has left an empty tree, no root node and
\* nothing in the pool; every call of divideTreeLimited has begun with the
\* test; MemoryExceeded is thrown exactly if a test met a limit that is not 0,
\* at the last test made, and never with both limits 0.
C29_ConsistentAbort ==
    /\ limited = "thrown" =>
          /\ limited_error \in {"MemoryExceeded", "bad_alloc"}
          /\ ~limited_root_node_
          /\ limited_pool_nodes = 0
    /\ limited \in {"idle", "divide", "built"} => limited_error = "none"
    /\ Len(exceeded_log) = divide_calls
    /\ (limited_error = "MemoryExceeded") <=> (OverLimit # {})
    /\ \A i \in OverLimit : i = Len(exceeded_log)
    /\ rss_limit_ = 0 /\ pool_limit_ = 0 => limited_error # "MemoryExceeded"

\* A build was aborted by MemoryExceeded at its second test or later, over the
\* pool limit, while the RSS had grown and the RSS limit was 0.
C29_Witness ==
    /\ limited = "thrown"
    /\ limited_error = "MemoryExceeded"
    /\ divide_calls >= 2
    /\ rss_limit_ = 0
    /\ exceeded_log[1].rss_now > build_baseline_rss_

\* Every invocation of an output function by the last operation went to the
\* function that had been passed last to set_output_stream, and
\* get_memory_threshold() returns the value passed last to set_memory_threshold.
Configured ==
    /\ \A i \in 1..Len(container_call.outputs) :
          container_call.installed # <<>> =>
              container_call.outputs[i].stream = container_call.installed[1]
    /\ threshold_passed # <<>> => get_memory_threshold = threshold_passed[1]

C31_WokenBySignal ==
    /\ ~(cv.loop = "blocked" /\ ~monitoring_active)
    /\ cv.woken # "timeout"

C33_PeakIsMaximum ==
    /\ [](/\ stats_.peak_usage <= tracking.max_current
          /\ Quiet => /\ stats_.peak_usage = tracking.max_current
                       /\ stats_.peak_usage >= stats_.current_usage)
    /\ [][stats_'.peak_usage >= stats_.peak_usage \/ stats_'.allocation_count = 0]_vars

\* Two threads updated the peak at the same time, one of them had to try
\* again, both calls have returned and a deallocation has lowered the usage.
C33_Witness ==
    /\ Quiet
    /\ tracking.retried
    /\ stats_.allocation_count >= 2
    /\ stats_.peak_usage = tracking.max_current
    /\ stats_.peak_usage > stats_.current_usage

\* C34, as claimed: a callback's call of its own monitor returns and the
\* dispatching call completes: the thread never blocks on callbacks_mutex_ and
\* no nested call is abandoned.
C34_ReentrantDispatch ==
    /\ dispatching.pc # "deadlock"
    /\ dispatching.abandoned = 0

\* C35, as claimed: the event that mark_tree_build_start / mark_tree_build_end
\* appends on an active monitor carries the reading that the same call takes,
\* which is stats_.current_memory_mb after the call.
C35_MarkerOwnSample ==
    [][(/\ last_op' \in {"mark_tree_build_start", "mark_tree_build_end"}
        /\ monitoring_active
        /\ Len(emitted') > Len(emitted)
        /\ emitted'[Len(emitted) + 1].type \in {"TREE_BUILD_START", "TREE_BUILD_END"})
       => emitted'[Len(emitted) + 1].memory_mb = stats'.current_memory_mb]_vars

\* C36, as claimed: a watcher whose reading at construction was 0 starts no
\* sampling thread and never invokes its callback.
C36_DisabledWatcherInert ==
    (watcher # "none" /\ baseline_rss_ = 0) =>
        /\ watcher_thread_ = "none"
        /\ callback_log = <<>>

\* C37, as claimed: the switch is on while a MemoryMonitor is alive, and
\* once none is alive it is what it was before the first was constructed.
C37_SwitchFollowsLifetimes ==
    IF \E i \in MonitorIds : monitors.alive[i]
    THEN monitoring_enabled_
    ELSE monitoring_enabled_ = monitors.before

====
